---- MODULE Spec2Model ----
(***************************************************************************)
(* Copy-trading engine: task store, per-task distributed lock, repeating   *)
(* tick scheduler, worker tick (ingest -> pending -> handlers), external   *)
(* commands (add / stop / restart / remove) and process startup.           *)
(*                                                                         *)
(* Redis and MongoDB survive a process crash; worker slots, command        *)
(* handlers and the startup sequence are in-process and die with it.       *)
(* In the worker specifications a handler either skips or fills; the       *)
(* amounts are in LedgerSpec and SizingSpec.                               *)
(*                                                                         *)
(* Spec          the worker and its lock: ticks on every slot, lock TTL,   *)
(*               failed releases, crashes and restarts.                    *)
(* LiveSpec      Spec under the scheduling the runtime guarantees.         *)
(* LifecycleSpec every command, two in flight at a time, with ticks on one *)
(*               slot, crashes and restarts.                               *)
(* IngestSpec    fetchNewTradeData alone: several tasks following one      *)
(*               trader, any order of the activities in a response.        *)
(* LedgerSpec    the ticks of one mock task with amounts: balance,         *)
(*               position sizes, cost basis and realized PnL.              *)
(* SizingSpec    handleSellTrade and handleLiveSellTrade as functions of   *)
(*               their arguments.                                          *)
(* SimSpec       simulateOrderExecution as a function of the order book.   *)
(* ReconcileSpec the startup position reconciler.                          *)
(* SweepSpec     the ticks that follow the startup reconciliation.         *)
(* LiveOrderSpec handleLiveBuyTrade and handleLiveSellTrade, one await at  *)
(*               a time.                                                   *)
(* OrderLoopSpec LiveOrderSpec with the loop of executeLiveSellOrders one  *)
(*               iteration at a time, and a venue that answers.            *)
(* CreateSpec    task creation by a pub/sub message and by a chat command. *)
(* BacklogSpec   LedgerSpec with ticks that end in an exception and with   *)
(*               the initialFinance of the task chosen at creation.        *)
(* FetchSpec     LedgerSpec with a positions fetch that fails.             *)
(* RetrySpec     the worker on one slot with transient faults: a sync or a *)
(*               handler that is attempted again and again succeeds.       *)
(***************************************************************************)
EXTENDS Integers, Sequences, FiniteSets, TLC

\* ------------------------------------------------------------------ bounds
NumTasks == 1
NumSlots == 2
NumCmds == 2
MaxFaults == 2
MaxRecordsPerSource == 2

\* ------------------------------------------------------- program constants
DefaultIntervalMs == 5000
ProcessedSentinel == 888

TaskIds == 1..NumTasks
Slots == 1..NumSlots
CmdSlots == 1..NumCmds
\* acquireTaskLock's null: no token (the lock key is absent)
NoToken == 0
Tokens == 1..(NumSlots + NumTasks)

\* The activity window of the followed trader, oldest first.  Every task
\* follows this trader.
Feed ==
  << [hash |-> "h1", side |-> "BUY", cond |-> "c1"],
     [hash |-> "h2", side |-> "SELL", cond |-> "c1"] >>

ActIds == 1..((NumTasks + NumSlots) * Len(Feed))

\* sourceTransactionHash of a trade record; "none" when the writer sets none
Sources == { Feed[i].hash : i \in 1..Len(Feed) } \cup { "none" }

VARIABLES
  tasks,         \* Redis hash copy-polymarket:tasks, id -> status ("none": no entry)
  usedIds,       \* ids generateUniqueId has handed out
  repeatables,   \* BullMQ repeatable entries, a set of repeat keys
  retryPending,  \* task ids with a failed tick waiting for its retry
  lock,          \* Redis keys copy-polymarket:task-lock:<id>, value = token
  activities,    \* UserActivity collection
  positions,     \* MockPosition collection, <<taskId, conditionId>> with size > 0
  tradeRecords,  \* TradeRecord collection, a bag over <<taskId, sourceHash>>
  mainPc,        \* position of main()
  restoreTodo,   \* listTasks() snapshot still to be restored by startTaskWorker
  job,           \* worker slots running processJob
  cmd,           \* command handlers in flight
  faults,        \* crashes, overrun TTLs and failed releases so far
  removedIds,    \* ids whose removeTask has returned
  overrun,       \* per task: the lock TTL elapsed while its holder was in the tick body
  call,          \* the last fetchNewTradeData call made on its own: task, response, outcome
  ledger,        \* one mock task's balance, position and tick, with amounts
  sizing,        \* the last SELL handler call made on its own: arguments and amounts
  sim,           \* the last simulateOrderExecution call made on its own
  recon,         \* the position reconciler of one mock task, with amounts
  live,          \* the Live handlers of one task, order by order
  admit          \* task creation on its own: the drafts stored and scheduled

vars == << tasks, usedIds, repeatables, retryPending, lock, activities, positions,
           tradeRecords, mainPc, restoreTodo, job, cmd, faults, removedIds, overrun,
           call, ledger, sizing, sim, recon, live, admit >>

\* what only the function-level specifications move
harness == << call, ledger, sizing, sim, recon, live, admit >>

NoCall == [task |-> 0, resp |-> << >>, threw |-> FALSE]

stores == << tasks, activities, positions, tradeRecords >>

\* --------------------------------------------------------------- helpers
Min(S) == CHOOSE x \in S : \A y \in S : x <= y

RepeatKey(taskId, intervalMs) == [name |-> "process-task", jobId |-> taskId, every |-> intervalMs]

EntriesOf(t) == { e \in repeatables : e.jobId = t }

IdleJob == [pc |-> "idle", task |-> 0, token |-> NoToken, trades |-> << >>,
            myPos |-> {}, thrown |-> FALSE, res |-> "none", relFailed |-> FALSE]

IdleCmd == [pc |-> "idle", op |-> "none", id |-> 0, ids |-> {}]

BodyPcs == { "getTask", "sync", "load", "claim", "handle" }

InBody(jr) == jr.pc \in BodyPcs

TokensInUse == { lock[t] : t \in TaskIds } \cup { job[j].token : j \in Slots }

ActIdsInUse == { a.id : a \in activities }
               \cup UNION { { job[j].trades[i].id : i \in 1..Len(job[j].trades) } : j \in Slots }

\* The tick-body ghost: set by the TTL expiring under a running holder,
\* cleared once no tick body of the task is running any more.
Ghost(expired) ==
  overrun' = [ t \in TaskIds |->
                 (overrun[t] \/ t \in expired)
                 /\ \E j \in Slots : InBody(job'[j]) /\ job'[j].task = t ]

\* ------------------------------------------------------------ queue.ts
\* queue.add(..., {jobId, repeat: {every}}): the repeat key is a function of
\* name, jobId and interval, so adding an existing key adds nothing.
scheduleTaskJob(entries, taskId) == entries \cup { RepeatKey(taskId, DefaultIntervalMs) }

\* queue.removeRepeatable(name, {every}, jobId): removes that key.
removeTaskJob(entries, taskId) == entries \ { RepeatKey(taskId, DefaultIntervalMs) }

\* A startup that skips the purge.
clearNothing(entries) == entries

\* getRepeatableJobs() then removeRepeatableByKey for each.
clearAllRepeatableJobs(entries) == entries \ { e \in entries : TRUE }

\* --------------------------------------------------------- taskLock.ts
\* SET without NX: the caller's token overwrites whatever is stored.
acquireTaskLockNoNX(locks, taskId, token) == [ locks EXCEPT ![taskId] = token ]

\* SET key token NX PX ttl: succeeds only when the key is absent.
acquireTaskLock(locks, taskId, token) ==
  IF locks[taskId] = NoToken THEN [ locks EXCEPT ![taskId] = token ] ELSE locks

\* A plain DEL of the key, whatever it holds.
releaseTaskLockAlways(locks, taskId, token) == [ locks EXCEPT ![taskId] = NoToken ]

\* RELEASE_LOCK_SCRIPT: delete only when the stored value is the caller's token.
releaseTaskLock(locks, taskId, token) ==
  IF locks[taskId] = token THEN [ locks EXCEPT ![taskId] = NoToken ] ELSE locks

\* ------------------------------------------------------ taskService.ts
normalizeTaskStatus(status) == IF status = "stopped" THEN "stopped" ELSE "running"

getTask(id) == IF tasks[id] = "none" THEN "none" ELSE normalizeTaskStatus(tasks[id])

updateTask(store, id, status) == [ store EXCEPT ![id] = status ]

\* deleteMany({taskId: {$in: ids}}) on the four collections.
RemainingActivities(ids) == { a \in activities : a.taskId \notin ids }
RemainingPositions(ids) == { p \in positions : p[1] \notin ids }
RemainingRecords(ids) == [ k \in DOMAIN tradeRecords |-> IF k[1] \in ids THEN 0 ELSE tradeRecords[k] ]

\* ------------------------------------------------------ tradeService.ts
\* fetchNewTradeData's loop over one API response: rows already stored for
\* (hash, taskId) are skipped; a new non-SELL row whose conditionId was seen
\* earlier in the response is stored pre-closed.  The collection has a
\* unique index on transactionHash alone: save() of a hash stored under
\* another task rejects, and the error is rethrown with the rows saved so far.
RECURSIVE Ingest(_, _, _, _, _)
Ingest(resp, taskId, rows, seen, free) ==
  IF resp = << >> THEN [ rows |-> rows, threw |-> FALSE ]
  ELSE LET act == Head(resp)
           exists == \E r \in rows : r.hash = act.hash /\ r.taskId = taskId
       IN IF exists THEN Ingest(Tail(resp), taskId, rows, seen, free)
          ELSE IF \E r \in rows : r.hash = act.hash
          THEN [ rows |-> rows, threw |-> TRUE ]
          ELSE LET isDuplicate == IF act.side = "SELL" THEN FALSE ELSE act.cond \in seen
                   row == [ id |-> Min(free), taskId |-> taskId, hash |-> act.hash,
                            side |-> act.side, cond |-> act.cond, bot |-> isDuplicate,
                            botExcutedTime |-> IF isDuplicate THEN ProcessedSentinel ELSE 0 ]
               IN Ingest(Tail(resp), taskId, rows \cup {row}, seen \cup {act.cond},
                         free \ {Min(free)})

Responses == { SubSeq(Feed, 1, k) : k \in 0..Len(Feed) }

\* The cursor returns rows in insertion order.
RECURSIVE SortById(_)
SortById(S) ==
  IF S = {} THEN << >>
  ELSE LET first == CHOOSE a \in S : \A b \in S : a.id <= b.id
       IN << first >> \o SortById(S \ {first})

\* The same find restricted to activities no tick has claimed.
getPendingTradesUnclaimed(taskId) ==
  SortById({ a \in activities : a.taskId = taskId /\ a.bot = FALSE /\ a.botExcutedTime = 0 })

\* The same find without the bot filter.
getPendingTradesAll(taskId) == SortById({ a \in activities : a.taskId = taskId })

\* UserActivity.find({bot: false, taskId}).
getPendingTrades(taskId) == SortById({ a \in activities : a.taskId = taskId /\ a.bot = FALSE })

\* MockPosition.find({taskId}) reduced to the conditionIds held.
getMyPositions(taskId) == { p[2] : p \in { q \in positions : q[1] = taskId } }

\* UserActivity.updateOne({_id}, {botExcutedTime: 1}).
MarkClaimed(rows, id) ==
  { IF a.id = id THEN [ a EXCEPT !.botExcutedTime = 1 ] ELSE a : a \in rows }

\* UserActivity.updateOne({_id}, {bot: true, botExcutedTime: 888}).
MarkDone(rows, id) ==
  { IF a.id = id THEN [ a EXCEPT !.bot = TRUE, !.botExcutedTime = ProcessedSentinel ] ELSE a
    : a \in rows }

\* TradeRecord.create inside persistTradeRecord.
persistTradeRecord(records, taskId, hash) ==
  [ records EXCEPT ![<< taskId, hash >>] = IF @ < MaxRecordsPerSource THEN @ + 1 ELSE @ ]

\* ------------------------------------------------------ mock ledger amounts
\* Token amounts are counted in hundredths of a token, prices in cents, money
\* in hundredths of a cent; a quotient is rounded down to that grain.
TokenUnit == 100

\* newSize <= 0.01 closes the position
DustThreshold == 1
\* MIN_ORDER_SIZE_TOKENS = 1.0
MinOrderTokens == TokenUnit
\* calculateOrderSize: finalAmount < 1 (dollar)
MinOrderUsd == 100 * TokenUnit

\* task.initialFinance ($21) and task.fixedAmount ($20)
InitialFinance == 21 * MinOrderUsd
FixedAmount == 20 * MinOrderUsd

\* initialFinance of a mock task added with another amount ($0 and $50)
LedgerFinances == { 0, 50 * MinOrderUsd }

\* ticks of the ledger specification
MaxTicks == 3
\* activities in one response
MaxQueue == 2

\* order book price levels, in cents
Prices == { 20, 50 }
\* trade.price of the trader's BUY activities, in cents
TraderPrices == Prices \cup { 100 }
\* sizes of the trader's SELL activities (60 and 40 tokens)
SellSizes == { 60 * TokenUnit, 40 * TokenUnit }
\* the trader's current position: absent (0), 0.01 token, 100 tokens
TargetSizes == { 0, 1, 100 * TokenUnit }
\* depth of the best bid: 30 tokens, or more than anyone sells
BidDepths == { 30 * TokenUnit, 10000 * TokenUnit }

\* own position sizes handed to a SELL handler (40 and 100 tokens)
OwnSizes == { 40 * TokenUnit, 100 * TokenUnit }
\* sum of myBoughtSize over the task's earlier BUY rows: none, 100, 150 tokens
TrackedSizes == { 0, 100 * TokenUnit, 150 * TokenUnit }
\* copyTraderPosition is undefined
Absent == -1

NoSizing ==
  [ mode |-> "none", own |-> 0, tracked |-> 0, pending |-> << >>, target |-> Absent,
    base |-> 0, order |-> 0, sold |-> 0 ]

\* payoutDenominator = 0: the condition is not settled
NotSettled == -1
\* getOutcomePayoutRatio was not called
NotAsked == -2

\* levels of one side of an order book
MaxLevels == 2
\* price in cents, size in hundredths of a token
Levels ==
  { [ price |-> 20, size |-> 5250 ], [ price |-> 21, size |-> 100 * TokenUnit * TokenUnit ],
    [ price |-> 50, size |-> 100 * TokenUnit * TokenUnit ], [ price |-> 20, size |-> 0 ] }
\* targetPrice of a simulated order, in cents
TargetPrices == { 20, 21, 50 }
\* dollars of a simulated BUY ($21)
BuyAmounts == { 21 * MinOrderUsd }

\* conditionIds of the reconciler's positions
CondOrder == << "c1", "c2" >>
Conditions == { CondOrder[i] : i \in DOMAIN CondOrder }
\* reconciliation cadence in ticks
SyncEveryNTicks == 30
MaxSweepTicks == SyncEveryNTicks + 1
\* size of a position of the followed trader: absent, 0 or 100 tokens
VenueSizes == { Absent, 0, 100 * TokenUnit }
\* bids a forced close can meet: 30 tokens at 0.45, 1000 at 0.20, 1000 at
\* 0.45, and a level without a price
CloseBids ==
  { [ price |-> 45, size |-> 30 * TokenUnit ], [ price |-> 20, size |-> 1000 * TokenUnit ],
    [ price |-> 45, size |-> 1000 * TokenUnit ], [ price |-> 0, size |-> 30 * TokenUnit ] }

NoClose == [ conditionId |-> "none", book |-> << >>, payout |-> NotAsked, thrown |-> FALSE,
             redeemed |-> FALSE, sold |-> 0, value |-> 0, records |-> 0 ]

NoRecon ==
  [ pc          |-> "off",
    own         |-> {},              \* MockPosition documents of the task
    balance     |-> InitialFinance,  \* task.currentBalance
    target      |-> [ c \in Conditions |-> Absent ],  \* the trader's positions at the venue
    fetched     |-> [ c \in Conditions |-> Absent ],  \* copyPositionsByCondition
    todo        |-> << >>,           \* myPositions still to visit
    last        |-> NoClose,         \* the forced close of the last iteration
    records     |-> 0,               \* TradeRecord documents written
    orphanTicks |-> 0 ]              \* ticks since the trader left a held position

\* LIVE_RETRY_LIMIT
LiveRetryLimit == 3
\* activities of one market handed to the Live handlers
MaxLiveTrades == 3
\* trade.price of a BUY of the followed trader, in cents
LiveTradePrice == 20
\* the slippage guard of the Live BUY loop, in cents
LiveSlippage == 5
\* trade.size of a SELL of the followed trader
LiveSellSize == 50 * TokenUnit
NoOrder == [ seen |-> 0, amount |-> 0 ]

NoLive ==
  [ pc         |-> "off",
    acts       |-> << >>,     \* UserActivity rows: side, bot, botExcutedTime, myBoughtSize
    cur        |-> 0,         \* rows handled so far
    held       |-> 0,         \* tokens in the wallet
    remaining  |-> 0,
    retry      |-> 0,
    abort      |-> FALSE,     \* abortDueToFunds / abortedDueToFunds
    total      |-> 0,         \* totalBoughtTokens / totalSoldTokens
    order      |-> NoOrder,   \* best ask seen and dollars ordered in the last iteration
    records    |-> << >>,     \* trade records written for each row
    filled     |-> << >> ]    \* tokens filled by the orders of each row

NoSim ==
  [ side |-> "none", amount |-> 0, targetPrice |-> 0, book |-> << >>,
    result |-> [ success |-> FALSE, fillSize |-> 0, usdcAmount |-> 0, weightedPriceSum |-> 0 ] ]

NewLedger ==
  [ balance    |-> InitialFinance,   \* task.currentBalance
    initialFinance |-> InitialFinance, \* task.initialFinance
    positions  |-> {},               \* MockPosition documents of the task
    pc         |-> "idle",
    trades     |-> << >>,            \* pending trades still to be handled
    myPositions |-> {},              \* getMyPositions() result of this tick
    target     |-> 0,                \* getCopyTraderPositions() size of this tick
    fetchFailed |-> FALSE,           \* that request failed and [] was returned
    ticks      |-> 0,
    loaded     |-> << >>,            \* what getPendingTrades returned
    backlog    |-> << >>,            \* rows stored open by ticks that ended before the loop
    startSize  |-> 0,                \* stored size when the tick started
    sold       |-> 0,                \* tokens sold by SELL trades of this tick
    orders     |-> << >>,            \* sellAmount of each SELL of this tick
    fills      |-> 0,                \* BUY / SELL / REDEEM fills of this tick
    payout     |-> NotAsked,         \* getOutcomePayoutRatio answer of this tick
    realized   |-> 0,                \* sum of realizedPnl over the trade records
    writtenOff |-> 0,                \* cost basis of residuals deleted as dust
    stale      |-> FALSE ]           \* a fill used a snapshot the store had left behind

\* task creation on its own: the task hash, the repeatable entries and the
\* outcome of the last request
NoAdmit == [ store |-> {}, scheduled |-> {}, last |-> "none" ]

Init ==
  /\ tasks = [ t \in TaskIds |-> "none" ]
  /\ usedIds = {}
  /\ repeatables = {}
  /\ retryPending = {}
  /\ lock = [ t \in TaskIds |-> NoToken ]
  /\ activities = {}
  /\ positions = {}
  /\ tradeRecords = [ k \in TaskIds \X Sources |-> 0 ]
  /\ mainPc = "boot"
  /\ restoreTodo = {}
  /\ job = [ j \in Slots |-> IdleJob ]
  /\ cmd = [ c \in CmdSlots |-> IdleCmd ]
  /\ faults = 0
  /\ removedIds = {}
  /\ overrun = [ t \in TaskIds |-> FALSE ]
  /\ call = NoCall
  /\ ledger = NewLedger
  /\ sizing = NoSizing
  /\ sim = NoSim
  /\ recon = NoRecon
  /\ live = NoLive
  /\ admit = NoAdmit

\* ===================================================== worker: processJob
JobStep(j, rec) == job' = [ job EXCEPT ![j] = rec ]

\* A repeatable entry fires: the scheduler hands a tick {taskId} to a free slot.
StartTick(j, t) ==
  /\ mainPc = "ready"
  /\ job[j].pc = "idle"
  /\ EntriesOf(t) # {}
  /\ JobStep(j, [ IdleJob EXCEPT !.pc = "acquire", !.task = t ])
  /\ UNCHANGED << tasks, usedIds, repeatables, retryPending, lock, activities, positions,
                  tradeRecords, mainPc, restoreTodo, cmd, faults, removedIds >>
  /\ Ghost({})
  /\ UNCHANGED harness

\* A failed tick is delivered again (attempts: 3, exponential backoff).
StartRetry(j, t) ==
  /\ mainPc = "ready"
  /\ job[j].pc = "idle"
  /\ t \in retryPending
  /\ retryPending' = retryPending \ {t}
  /\ JobStep(j, [ IdleJob EXCEPT !.pc = "acquire", !.task = t ])
  /\ UNCHANGED << tasks, usedIds, repeatables, lock, activities, positions,
                  tradeRecords, mainPc, restoreTodo, cmd, faults, removedIds >>
  /\ Ghost({})
  /\ UNCHANGED harness

\* The job is over: the slot keeps what it returned until it takes the next one.
Returned(jr, res) == [ IdleJob EXCEPT !.task = jr.task, !.token = jr.token, !.res = res ]

\* Contention reported as an error: the job fails and is retried.
NotRunThrows(jr) == Returned(jr, "failed")

\* withTaskLock without a token returns false at once; processJob logs the
\* skip and returns normally.
NotRun(jr) == Returned(jr, "skipped")

\* A job that threw is failed and delivered again; one that returned is completed.
Settle(jr) == IF jr.res = "failed" THEN retryPending \cup { jr.task } ELSE retryPending

\* withTaskLock: acquireTaskLock, then fn() or the early return.
Acquire(j) ==
  /\ job[j].pc = "acquire"
  /\ LET t == job[j].task
         token == Min(Tokens \ TokensInUse)
         locks == acquireTaskLock(lock, t, token)
     IN /\ lock' = locks
        /\ IF locks[t] = token
           THEN JobStep(j, [ job[j] EXCEPT !.pc = "getTask", !.token = token ])
           ELSE JobStep(j, NotRun(job[j]))
        /\ retryPending' = Settle(job'[j])
  /\ UNCHANGED << tasks, usedIds, repeatables, activities, positions,
                  tradeRecords, mainPc, restoreTodo, cmd, faults, removedIds >>
  /\ Ghost({})
  /\ UNCHANGED harness

\* processJob body: getTask, return when absent or not running.
GetTask(j) ==
  /\ job[j].pc = "getTask"
  /\ JobStep(j, [ job[j] EXCEPT !.pc = IF getTask(job[j].task) = "running"
                                        THEN "sync" ELSE "release" ])
  /\ UNCHANGED << tasks, usedIds, repeatables, retryPending, lock, activities, positions,
                  tradeRecords, mainPc, restoreTodo, cmd, faults, removedIds >>
  /\ Ghost({})
  /\ UNCHANGED harness

\* Release on the normal path only: an exception leaves withTaskLock at once.
ThrownSkipsFinally(jr) == Returned(jr, "failed")

\* fn() throws inside withTaskLock's try: the finally block runs next.
Thrown(jr) == [ jr EXCEPT !.pc = "release", !.thrown = TRUE ]

\* executeTask: syncTradeData stores the new rows of one API response.
Sync(j) ==
  /\ job[j].pc = "sync"
  /\ \E resp \in Responses :
       LET got == Ingest(resp, job[j].task, activities, {}, ActIds \ ActIdsInUse)
       IN /\ activities' = got.rows
          /\ JobStep(j, IF got.threw THEN Thrown(job[j])
                        ELSE [ job[j] EXCEPT !.pc = "load" ])
  /\ UNCHANGED << tasks, usedIds, repeatables, retryPending, lock, positions,
                  tradeRecords, mainPc, restoreTodo, cmd, faults, removedIds >>
  /\ Ghost({})
  /\ UNCHANGED harness

\* The fetch throws: syncTradeData rethrows, executeTask and processJob rethrow.
SyncThrows(j) ==
  /\ job[j].pc = "sync"
  /\ JobStep(j, Thrown(job[j]))
  /\ UNCHANGED << tasks, usedIds, repeatables, retryPending, lock, activities, positions,
                  tradeRecords, mainPc, restoreTodo, cmd, faults, removedIds >>
  /\ Ghost({})
  /\ UNCHANGED harness

\* getPendingTrades (return when there is none), then getMyPositions: one
\* snapshot of each for the whole loop.
Load(j) ==
  /\ job[j].pc = "load"
  /\ LET trades == getPendingTrades(job[j].task)
     IN JobStep(j, [ job[j] EXCEPT !.trades = trades,
                                   !.myPos = getMyPositions(job[j].task),
                                   !.pc = IF trades = << >> THEN "release" ELSE "claim" ])
  /\ UNCHANGED << tasks, usedIds, repeatables, retryPending, lock, activities, positions,
                  tradeRecords, mainPc, restoreTodo, cmd, faults, removedIds >>
  /\ Ghost({})
  /\ UNCHANGED harness

\* Loop head: updateOne({_id}, {botExcutedTime: 1}).
Claim(j) ==
  /\ job[j].pc = "claim"
  /\ activities' = MarkClaimed(activities, Head(job[j].trades).id)
  /\ JobStep(j, [ job[j] EXCEPT !.pc = "handle" ])
  /\ UNCHANGED << tasks, usedIds, repeatables, retryPending, lock, positions,
                  tradeRecords, mainPc, restoreTodo, cmd, faults, removedIds >>
  /\ Ghost({})
  /\ UNCHANGED harness

\* The loop moves on: next trade, or the end of executeTask.
NextTrade(jr) ==
  [ jr EXCEPT !.trades = Tail(@),
              !.pc = IF Tail(jr.trades) = << >> THEN "release" ELSE "claim" ]

\* What the loop body does with one trade, as the sequence of its writes.
\* BUY with a position held, SELL without one and an unknown side are closed
\* by the loop itself; otherwise the handler either skips (marks the row
\* only) or fills: position, trade record, mark, then the loop's updateTask.
HandlerPlans(trade, held) ==
  IF trade.side = "BUY"
  THEN IF held THEN { << "mark" >> }
       ELSE { << "mark" >>, << "upsert", "record", "mark", "update" >> }
  ELSE IF trade.side = "SELL"
  THEN IF ~held THEN { << "mark" >> }
       ELSE { << "mark" >>, << "delete", "record", "mark", "update" >>,
              << "resize", "record", "mark", "update" >> }
  ELSE IF trade.side = "REDEEM"
  THEN IF held THEN { << "mark" >>, << "redeemRecord", "delete", "mark", "update" >> }
       ELSE { << "mark" >> }
  ELSE { << "mark" >> }

\* The state of the stores after the writes of a plan.
RECURSIVE Written(_, _, _, _)
Written(plan, t, trade, st) ==
  IF plan = << >> THEN st
  ELSE LET step == Head(plan)
           next ==
             CASE step = "upsert" -> [ st EXCEPT !.positions = @ \cup { << t, trade.cond >> } ]
               [] step = "delete" -> [ st EXCEPT !.positions = @ \ { << t, trade.cond >> } ]
               [] step = "record" ->
                    [ st EXCEPT !.tradeRecords = persistTradeRecord(@, t, trade.hash) ]
               [] step = "redeemRecord" ->
                    [ st EXCEPT !.tradeRecords = persistTradeRecord(@, t, "none") ]
               [] step = "mark" -> [ st EXCEPT !.activities = MarkDone(@, trade.id) ]
               [] step = "update" -> [ st EXCEPT !.tasks = updateTask(@, t, "running") ]
               [] OTHER -> st
       IN Written(Tail(plan), t, trade, next)

\* One trade of the loop: side dispatch and the handler it calls.
Handle(j) ==
  /\ job[j].pc = "handle"
  /\ LET t == job[j].task
         trade == Head(job[j].trades)
         before == [ tasks |-> tasks, activities |-> activities, positions |-> positions,
                     tradeRecords |-> tradeRecords ]
     IN \E plan \in HandlerPlans(trade, trade.cond \in job[j].myPos) :
          LET after == Written(plan, t, trade, before)
          IN /\ tasks' = after.tasks
             /\ activities' = after.activities
             /\ positions' = after.positions
             /\ tradeRecords' = after.tradeRecords
  /\ JobStep(j, NextTrade(job[j]))
  /\ UNCHANGED << usedIds, repeatables, retryPending, lock, mainPc, restoreTodo, cmd,
                  faults, removedIds >>
  /\ Ghost({})
  /\ UNCHANGED harness

\* Anything inside executeTask's try throws: logged, the loop is abandoned.
HandlerThrows(j) ==
  /\ job[j].pc = "handle"
  /\ JobStep(j, [ job[j] EXCEPT !.pc = "release" ])
  /\ UNCHANGED << tasks, usedIds, repeatables, retryPending, lock, activities, positions,
                  tradeRecords, mainPc, restoreTodo, cmd, faults, removedIds >>
  /\ Ghost({})
  /\ UNCHANGED harness

\* withTaskLock's finally: releaseTaskLock, then return true or rethrow.
Release(j) ==
  /\ job[j].pc = "release"
  /\ lock' = releaseTaskLock(lock, job[j].task, job[j].token)
  /\ JobStep(j, Returned(job[j], IF job[j].thrown THEN "failed" ELSE "ran"))
  /\ retryPending' = Settle(job'[j])
  /\ UNCHANGED << tasks, usedIds, repeatables, activities, positions,
                  tradeRecords, mainPc, restoreTodo, cmd, faults, removedIds >>
  /\ Ghost({})
  /\ UNCHANGED harness

\* The release command itself fails: the error is logged and swallowed.
ReleaseFails(j) ==
  /\ job[j].pc = "release"
  /\ faults < MaxFaults
  /\ faults' = faults + 1
  /\ JobStep(j, [ Returned(job[j], IF job[j].thrown THEN "failed" ELSE "ran")
                    EXCEPT !.relFailed = TRUE ])
  /\ retryPending' = Settle(job'[j])
  /\ UNCHANGED << tasks, usedIds, repeatables, lock, activities, positions,
                  tradeRecords, mainPc, restoreTodo, cmd, removedIds >>
  /\ Ghost({})
  /\ UNCHANGED harness

\* ================================================================ time
HolderAlive(t) == \E j \in Slots : job[j].token = lock[t] /\ job[j].pc \in BodyPcs \cup {"release"}

\* A lock stored without PX never goes away by itself.
ExpireNoTTL(t) ==
  /\ lock[t] # NoToken
  /\ ~HolderAlive(t)
  /\ UNCHANGED vars

\* PX ttl: the key disappears when the TTL has elapsed.
Expire(t) ==
  /\ lock[t] # NoToken
  /\ ~HolderAlive(t)
  /\ lock' = [ lock EXCEPT ![t] = NoToken ]
  /\ UNCHANGED << tasks, usedIds, repeatables, retryPending, activities, positions,
                  tradeRecords, mainPc, restoreTodo, job, cmd, removedIds, faults >>
  /\ Ghost({})
  /\ UNCHANGED harness

\* The TTL elapses while the holder is still inside withTaskLock.
ExpireUnderHolder(t) ==
  /\ lock[t] # NoToken
  /\ HolderAlive(t)
  /\ faults < MaxFaults
  /\ faults' = faults + 1
  /\ lock' = [ lock EXCEPT ![t] = NoToken ]
  /\ UNCHANGED << tasks, usedIds, repeatables, retryPending, activities, positions,
                  tradeRecords, mainPc, restoreTodo, job, cmd, removedIds >>
  /\ Ghost({t})
  /\ UNCHANGED harness

\* The process dies: every in-process activity is gone, the stores stay.
Crash ==
  /\ mainPc # "boot"
  /\ faults < MaxFaults
  /\ faults' = faults + 1
  /\ job' = [ j \in Slots |-> IdleJob ]
  /\ cmd' = [ c \in CmdSlots |-> IdleCmd ]
  /\ mainPc' = "boot"
  /\ restoreTodo' = {}
  /\ UNCHANGED << tasks, usedIds, repeatables, retryPending, lock, activities, positions,
                  tradeRecords, removedIds >>
  /\ Ghost({})
  /\ UNCHANGED harness

\* ============================================================== main()
\* clearAllRepeatableJobs()
StartupClear ==
  /\ mainPc = "boot"
  /\ repeatables' = clearAllRepeatableJobs(repeatables)
  /\ mainPc' = "list"
  /\ UNCHANGED << tasks, usedIds, retryPending, lock, activities, positions, tradeRecords,
                  restoreTodo, job, cmd, removedIds, faults >>
  /\ Ghost({})
  /\ UNCHANGED harness

\* startTaskWorker: listTasks()
StartupList ==
  /\ mainPc = "list"
  /\ restoreTodo' = { t \in TaskIds : getTask(t) = "running" }
  /\ mainPc' = "restore"
  /\ UNCHANGED << tasks, usedIds, repeatables, retryPending, lock, activities, positions,
                  tradeRecords, job, cmd, removedIds, faults >>
  /\ Ghost({})
  /\ UNCHANGED harness

\* startTaskWorker, one running task: reconcilePositionsOnStartup closes the
\* positions the trader no longer holds, then scheduleTaskJob.
StartupRestore(t) ==
  /\ mainPc = "restore"
  /\ t \in restoreTodo
  /\ \E closed \in SUBSET getMyPositions(t) :
       /\ positions' = positions \ { << t, c >> : c \in closed }
       /\ tradeRecords' = IF closed = {} THEN tradeRecords
                          ELSE persistTradeRecord(tradeRecords, t, "none")
       /\ tasks' = IF closed = {} THEN tasks ELSE updateTask(tasks, t, "running")
  /\ repeatables' = scheduleTaskJob(repeatables, t)
  /\ restoreTodo' = restoreTodo \ {t}
  /\ UNCHANGED << usedIds, retryPending, lock, activities, mainPc, job, cmd, removedIds,
                  faults >>
  /\ Ghost({})
  /\ UNCHANGED harness

\* createWorker, createBot, bot.launch: ticks and commands are served from here on.
StartupDone ==
  /\ mainPc = "restore"
  /\ restoreTodo = {}
  /\ mainPc' = "ready"
  /\ UNCHANGED << tasks, usedIds, repeatables, retryPending, lock, activities, positions,
                  tradeRecords, restoreTodo, job, cmd, removedIds, faults >>
  /\ Ghost({})
  /\ UNCHANGED harness

\* ==================================================== external commands
CmdStep(c, rec) == cmd' = [ cmd EXCEPT ![c] = rec ]

\* addTask: generateUniqueId, hSet with status running.
AddTaskStore(c, id) ==
  /\ mainPc = "ready"
  /\ cmd[c].pc = "idle"
  /\ id \in TaskIds \ usedIds
  /\ id = Min(TaskIds \ usedIds)
  /\ tasks[id] = "none"
  /\ usedIds' = usedIds \cup {id}
  /\ tasks' = updateTask(tasks, id, "running")
  /\ CmdStep(c, [ IdleCmd EXCEPT !.pc = "addSchedule", !.op = "add", !.id = id ])
  /\ UNCHANGED << repeatables, retryPending, lock, activities, positions, tradeRecords,
                  mainPc, restoreTodo, job, removedIds, faults >>
  /\ Ghost({})
  /\ UNCHANGED harness

\* addTask: scheduleTaskJob(task.id).
AddTaskSchedule(c) ==
  /\ cmd[c].pc = "addSchedule"
  /\ repeatables' = scheduleTaskJob(repeatables, cmd[c].id)
  /\ CmdStep(c, IdleCmd)
  /\ UNCHANGED << tasks, usedIds, retryPending, lock, activities, positions, tradeRecords,
                  mainPc, restoreTodo, job, removedIds, faults >>
  /\ Ghost({})
  /\ UNCHANGED harness

\* stopTask: hGet; an absent task returns false.
StopTaskRead(c, id) ==
  /\ mainPc = "ready"
  /\ cmd[c].pc = "idle"
  /\ id \in usedIds
  /\ tasks[id] # "none"
  /\ CmdStep(c, [ IdleCmd EXCEPT !.pc = "stopStore", !.op = "stop", !.id = id ])
  /\ UNCHANGED << tasks, usedIds, repeatables, retryPending, lock, activities, positions,
                  tradeRecords, mainPc, restoreTodo, job, removedIds, faults >>
  /\ Ghost({})
  /\ UNCHANGED harness

\* stopTask: hSet of the task read, with status stopped.
StopTaskStore(c) ==
  /\ cmd[c].pc = "stopStore"
  /\ tasks' = updateTask(tasks, cmd[c].id, "stopped")
  /\ CmdStep(c, [ cmd[c] EXCEPT !.pc = "stopUnschedule" ])
  /\ UNCHANGED << usedIds, repeatables, retryPending, lock, activities, positions,
                  tradeRecords, mainPc, restoreTodo, job, removedIds, faults >>
  /\ Ghost({})
  /\ UNCHANGED harness

\* stopTask: removeTaskJob(id).
StopTaskUnschedule(c) ==
  /\ cmd[c].pc = "stopUnschedule"
  /\ repeatables' = removeTaskJob(repeatables, cmd[c].id)
  /\ CmdStep(c, IdleCmd)
  /\ UNCHANGED << tasks, usedIds, retryPending, lock, activities, positions, tradeRecords,
                  mainPc, restoreTodo, job, removedIds, faults >>
  /\ Ghost({})
  /\ UNCHANGED harness

\* handleRestartTask: getTask; absent or already running returns restarted: false.
RestartTaskRead(c, id) ==
  /\ mainPc = "ready"
  /\ cmd[c].pc = "idle"
  /\ id \in usedIds
  /\ getTask(id) = "stopped"
  /\ CmdStep(c, [ IdleCmd EXCEPT !.pc = "restartStore", !.op = "restart", !.id = id ])
  /\ UNCHANGED << tasks, usedIds, repeatables, retryPending, lock, activities, positions,
                  tradeRecords, mainPc, restoreTodo, job, removedIds, faults >>
  /\ Ghost({})
  /\ UNCHANGED harness

\* handleRestartTask: task.status = 'running'; updateTask(task).
RestartTaskStore(c) ==
  /\ cmd[c].pc = "restartStore"
  /\ tasks' = updateTask(tasks, cmd[c].id, "running")
  /\ CmdStep(c, [ cmd[c] EXCEPT !.pc = "restartSchedule" ])
  /\ UNCHANGED << usedIds, repeatables, retryPending, lock, activities, positions,
                  tradeRecords, mainPc, restoreTodo, job, removedIds, faults >>
  /\ Ghost({})
  /\ UNCHANGED harness

\* handleRestartTask: scheduleTaskJob(task.id).
RestartTaskSchedule(c) ==
  /\ cmd[c].pc = "restartSchedule"
  /\ repeatables' = scheduleTaskJob(repeatables, cmd[c].id)
  /\ CmdStep(c, IdleCmd)
  /\ UNCHANGED << tasks, usedIds, retryPending, lock, activities, positions, tradeRecords,
                  mainPc, restoreTodo, job, removedIds, faults >>
  /\ Ghost({})
  /\ UNCHANGED harness

\* removeTask(id): removeTaskJob(id).
RemoveTaskUnschedule(c, id) ==
  /\ mainPc = "ready"
  /\ cmd[c].pc = "idle"
  /\ id \in usedIds
  /\ id \notin removedIds
  /\ repeatables' = removeTaskJob(repeatables, id)
  /\ CmdStep(c, [ IdleCmd EXCEPT !.pc = "removeRecords", !.op = "remove", !.id = id,
                                 !.ids = {id} ])
  /\ UNCHANGED << tasks, usedIds, retryPending, lock, activities, positions, tradeRecords,
                  mainPc, restoreTodo, job, removedIds, faults >>
  /\ Ghost({})
  /\ UNCHANGED harness

\* removeTask(): hGetAll, then removeTaskJob for every task listed.
RemoveAllUnschedule(c) ==
  /\ mainPc = "ready"
  /\ cmd[c].pc = "idle"
  /\ LET ids == { t \in TaskIds : tasks[t] # "none" }
     IN /\ ids # {}
        /\ repeatables' = { e \in repeatables : e \notin { RepeatKey(t, DefaultIntervalMs) : t \in ids } }
        /\ CmdStep(c, [ IdleCmd EXCEPT !.pc = "removeRecords", !.op = "removeAll", !.ids = ids ])
  /\ UNCHANGED << tasks, usedIds, retryPending, lock, activities, positions, tradeRecords,
                  mainPc, restoreTodo, job, removedIds, faults >>
  /\ Ghost({})
  /\ UNCHANGED harness

\* removeTaskDatabaseRecords(ids): deleteMany on every collection.
RemoveTaskDatabaseRecords(c) ==
  /\ cmd[c].pc = "removeRecords"
  /\ activities' = RemainingActivities(cmd[c].ids)
  /\ positions' = RemainingPositions(cmd[c].ids)
  /\ tradeRecords' = RemainingRecords(cmd[c].ids)
  /\ CmdStep(c, [ cmd[c] EXCEPT !.pc = "removeEntry" ])
  /\ UNCHANGED << tasks, usedIds, repeatables, retryPending, lock, mainPc, restoreTodo, job,
                  removedIds, faults >>
  /\ Ghost({})
  /\ UNCHANGED harness

\* removeTask(id): hDel(TASKS_KEY, id); removeTask(): del(TASKS_KEY).
RemoveTaskEntry(c) ==
  /\ cmd[c].pc = "removeEntry"
  /\ tasks' = IF cmd[c].op = "remove"
              THEN updateTask(tasks, cmd[c].id, "none")
              ELSE [ t \in TaskIds |-> "none" ]
  /\ removedIds' = removedIds \cup cmd[c].ids
  /\ CmdStep(c, IdleCmd)
  /\ UNCHANGED << usedIds, repeatables, retryPending, lock, activities, positions,
                  tradeRecords, mainPc, restoreTodo, job, faults >>
  /\ Ghost({})
  /\ UNCHANGED harness

\* ================================================================= Next
\* The worker process with its lock: startup, tasks being added, ticks on
\* every slot, the lock TTL, failed releases and crashes.
Next ==
  \/ \E j \in Slots, t \in TaskIds : StartTick(j, t)
  \/ \E j \in Slots, t \in TaskIds : StartRetry(j, t)
  \/ \E j \in Slots : Acquire(j)
  \/ \E j \in Slots : GetTask(j)
  \/ \E j \in Slots : Sync(j)
  \/ \E j \in Slots : SyncThrows(j)
  \/ \E j \in Slots : Load(j)
  \/ \E j \in Slots : Claim(j)
  \/ \E j \in Slots : Handle(j)
  \/ \E j \in Slots : HandlerThrows(j)
  \/ \E j \in Slots : Release(j)
  \/ \E j \in Slots : ReleaseFails(j)
  \/ \E t \in TaskIds : Expire(t)
  \/ \E t \in TaskIds : ExpireUnderHolder(t)
  \/ Crash
  \/ StartupClear
  \/ StartupList
  \/ \E t \in TaskIds : StartupRestore(t)
  \/ StartupDone
  \/ \E id \in TaskIds : AddTaskStore(1, id)
  \/ AddTaskSchedule(1)

Spec == Init /\ [][Next]_vars

\* The task lifecycle: every command, two of them in flight at a time, with
\* ticks on one slot, crashes and restarts.
LifecycleNext ==
  \/ \E t \in TaskIds : StartTick(1, t)
  \/ \E t \in TaskIds : StartRetry(1, t)
  \/ Acquire(1)
  \/ GetTask(1)
  \/ Sync(1)
  \/ SyncThrows(1)
  \/ Load(1)
  \/ Claim(1)
  \/ Handle(1)
  \/ HandlerThrows(1)
  \/ Release(1)
  \/ \E t \in TaskIds : Expire(t)
  \/ Crash
  \/ StartupClear
  \/ StartupList
  \/ \E t \in TaskIds : StartupRestore(t)
  \/ StartupDone
  \/ \E c \in CmdSlots, id \in TaskIds : AddTaskStore(c, id)
  \/ \E c \in CmdSlots : AddTaskSchedule(c)
  \/ \E c \in CmdSlots, id \in TaskIds : StopTaskRead(c, id)
  \/ \E c \in CmdSlots : StopTaskStore(c)
  \/ \E c \in CmdSlots : StopTaskUnschedule(c)
  \/ \E c \in CmdSlots, id \in TaskIds : RestartTaskRead(c, id)
  \/ \E c \in CmdSlots : RestartTaskStore(c)
  \/ \E c \in CmdSlots : RestartTaskSchedule(c)
  \/ \E c \in CmdSlots, id \in TaskIds : RemoveTaskUnschedule(c, id)
  \/ \E c \in CmdSlots : RemoveAllUnschedule(c)
  \/ \E c \in CmdSlots : RemoveTaskDatabaseRecords(c)
  \/ \E c \in CmdSlots : RemoveTaskEntry(c)

LifecycleSpec == Init /\ [][LifecycleNext]_vars

\* The same process under the scheduling the runtime gives it: time passes
\* (a TTL elapses), an awaited call returns, main() runs on, and BullMQ hands
\* every due tick of every scheduled task to a slot, first in first out.
Fairness ==
  /\ \A t \in TaskIds : WF_vars(Expire(t))
  /\ \A t \in TaskIds : SF_vars(\E j \in Slots : StartTick(j, t))
  /\ \A j \in Slots : WF_vars(Acquire(j) \/ GetTask(j) \/ Sync(j) \/ Load(j) \/ Claim(j)
                               \/ Handle(j) \/ Release(j))
  /\ WF_vars(StartupClear \/ StartupList \/ StartupDone \/ \E t \in TaskIds : StartupRestore(t))
  /\ WF_vars(AddTaskSchedule(1))

LiveSpec == Init /\ [][Next]_vars /\ Fairness

\* A handler that returns without closing the activity: handleLiveBuyTrade
\* when the trading client cannot be initialised returns 0 and leaves
\* bot = false, botExcutedTime = 1; the loop goes on to the next trade.
HandlerReturnsEarly(j) ==
  /\ job[j].pc = "handle"
  /\ JobStep(j, NextTrade(job[j]))
  /\ UNCHANGED << tasks, usedIds, repeatables, retryPending, lock, activities, positions,
                  tradeRecords, mainPc, restoreTodo, cmd, faults, removedIds >>
  /\ Ghost({})
  /\ UNCHANGED harness

\* One worker slot: ticks, handlers that throw or return early, crashes and
\* restarts.
RetryNext ==
  \/ \E t \in TaskIds : StartTick(1, t)
  \/ \E t \in TaskIds : StartRetry(1, t)
  \/ Acquire(1)
  \/ GetTask(1)
  \/ Sync(1)
  \/ SyncThrows(1)
  \/ Load(1)
  \/ Claim(1)
  \/ Handle(1)
  \/ HandlerThrows(1)
  \/ HandlerReturnsEarly(1)
  \/ Release(1)
  \/ \E t \in TaskIds : Expire(t)
  \/ Crash
  \/ StartupClear
  \/ StartupList
  \/ \E t \in TaskIds : StartupRestore(t)
  \/ StartupDone
  \/ \E id \in TaskIds : AddTaskStore(1, id)
  \/ AddTaskSchedule(1)

\* A request or a handler that is tried again and again does not fail every
\* time: the venue, the database and the trading client come back.
TransientFaults ==
  /\ \A t \in TaskIds :
       SF_vars(\E j \in Slots : Sync(j) /\ job[j].task = t /\ job'[j].pc = "load")
  /\ \A t \in TaskIds : SF_vars(\E j \in Slots : Handle(j) /\ job[j].task = t)

\* The worker under the runtime's scheduling, with faults that pass.
RetrySpec == Init /\ [][RetryNext]_vars /\ Fairness /\ TransientFaults

\* ------------------------------------------------- ingestion on its own
\* Tasks that follow the same trader.
NumFollowers == 2
\* Longest API response.
MaxResp == 2

Followers == 1..NumFollowers

\* The trader's activities inside the time window.
Window ==
  << [hash |-> "h1", side |-> "BUY", cond |-> "c1"],
     [hash |-> "h2", side |-> "SELL", cond |-> "c1"],
     [hash |-> "h3", side |-> "BUY", cond |-> "c1"],
     [hash |-> "h4", side |-> "BUY", cond |-> "c2"] >>

IngestIds == 1..(NumFollowers * Len(Window))

\* A response lists some activities of the window, each once, in any order.
WindowResponses ==
  LET picks == UNION { [ 1..n -> 1..Len(Window) ] : n \in 0..Min({ MaxResp, Len(Window) }) }
  IN { [ i \in DOMAIN f |-> Window[f[i]] ] :
         f \in { g \in picks : \A i, k \in DOMAIN g : i # k => g[i] # g[k] } }

\* One call fetchNewTradeData(task) answered with resp.
fetchNewTradeData(t, resp) ==
  LET got == Ingest(resp, t, activities, {}, IngestIds \ ActIdsInUse)
  IN /\ activities' = got.rows
     /\ call' = [ task |-> t, resp |-> resp, threw |-> got.threw ]
     /\ UNCHANGED << tasks, usedIds, repeatables, retryPending, lock, positions,
                     tradeRecords, mainPc, restoreTodo, job, cmd, faults,
                     removedIds, overrun, ledger, sizing, sim, recon, live, admit >>

IngestNext == \E t \in Followers, resp \in WindowResponses : fetchNewTradeData(t, resp)

IngestSpec == Init /\ [][IngestNext]_vars

\* ------------------------------------------- the mock tick with amounts
\* Activities of one market; a field the handlers do not read is 0.
LedgerTrades ==
  [ side : { "BUY" }, size : { 0 }, price : TraderPrices ]
    \cup [ side : { "SELL" }, size : SellSizes, price : { 0 } ]
    \cup [ side : { "REDEEM" }, size : { 0 }, price : { 0 } ]

LedgerResponses == UNION { [ 1..n -> LedgerTrades ] : n \in 0..MaxQueue }

\* asks: none (or the book cannot be read), or one deep level at a price
Asks == { 0 } \cup Prices
NoBid == [ price |-> 0, depth |-> 0 ]
Bids == { NoBid } \cup [ price : Prices, depth : BidDepths ]
\* getOutcomePayoutRatio: not settled (-1), or the payout in cents per token
Payouts == { NotSettled, 0, 100 }

\* fetchNewTradeData then getPendingTrades on an empty backlog: the rows of
\* the response stored with bot = false; seen: the conditionId is in seenConditions.
RECURSIVE OpenRows(_, _)
OpenRows(resp, seen) ==
  IF resp = << >> THEN << >>
  ELSE LET activity == Head(resp)
           isDuplicate == IF activity.side = "SELL" THEN FALSE ELSE seen
       IN (IF isDuplicate THEN << >> ELSE << activity >>) \o OpenRows(Tail(resp), TRUE)

\* The same sizing without the minimum.
calculateOrderSizeNoMinimum(fixedAmount, availableBalance) ==
  LET maxAffordable == (availableBalance * 99) \div 100
  IN IF fixedAmount > maxAffordable THEN maxAffordable ELSE fixedAmount

calculateOrderSize(fixedAmount, availableBalance) ==
  LET maxAffordable == (availableBalance * 99) \div 100
      finalAmount == IF fixedAmount > maxAffordable THEN maxAffordable ELSE fixedAmount
  IN IF finalAmount < MinOrderUsd THEN 0 ELSE finalAmount

NoFill == [ success |-> FALSE, fillPrice |-> 0, fillSize |-> 0, usdcAmount |-> 0 ]

\* simulateOrderExecution, side BUY, against one ask level deep enough for
\* the amount; the dollars spent are those of the whole units bought.
simulateBuy(amount, targetPrice, ask) ==
  LET totalTokens == amount \div ask
      off == IF ask >= targetPrice THEN ask - targetPrice ELSE targetPrice - ask
  IN IF ask = 0 THEN NoFill
     ELSE IF totalTokens = 0 THEN NoFill
     ELSE IF off * 100 > 5 * targetPrice THEN NoFill
     ELSE [ success |-> TRUE, fillPrice |-> ask, fillSize |-> totalTokens,
            usdcAmount |-> totalTokens * ask ]

\* simulateOrderExecution, side SELL, against the best bid.
simulateSell(amount, bid) ==
  LET filledTokens == IF amount < bid.depth THEN amount ELSE bid.depth
  IN IF bid.price = 0 \/ bid.depth = 0 THEN NoFill
     ELSE IF filledTokens = 0 THEN NoFill
     ELSE [ success |-> TRUE, fillPrice |-> bid.price, fillSize |-> filledTokens,
            usdcAmount |-> filledTokens * bid.price ]

\* UserActivity.find({asset, conditionId, side: 'SELL', bot: {$ne: true}, taskId})
\* summed over size: the SELL rows not yet marked done, the current one included.
RECURSIVE totalUnprocessedSellSize(_)
totalUnprocessedSellSize(trades) ==
  IF trades = << >> THEN 0
  ELSE (IF Head(trades).side = "SELL" THEN Head(trades).size ELSE 0)
         + totalUnprocessedSellSize(Tail(trades))

\* The earlier form of the ratio: trade.size / (trade.size + T_now).
sellAmountOwnSizeOnly(myPosition, trade, targetSize, pending) ==
  IF targetSize > 0
  THEN (myPosition.size * trade.size) \div (trade.size + targetSize)
  ELSE myPosition.size

\* handleSellTrade: the amount to sell.
sellAmount(myPosition, trade, targetSize, pending) ==
  IF targetSize > 0
  THEN (myPosition.size * trade.size) \div (targetSize + totalUnprocessedSellSize(pending))
  ELSE myPosition.size

\* The same update with the cost basis left where it was.
updateMockPositionKeepsCost(stored, input) ==
  LET soldCost == input.fillSize * input.avgPrice
      newSize == input.positionSize - input.fillSize
  IN [ positions |->
         IF newSize <= DustThreshold THEN {}
         ELSE { [ q EXCEPT !.size = newSize,
                           !.currentValue = newSize * input.fillPrice,
                           !.cashPnl = newSize * input.fillPrice - q.totalBought ] : q \in stored },
       newSize |-> newSize,
       costBasisPrice |-> input.avgPrice,
       soldCost |-> soldCost,
       realizedPnl |-> input.fillSize * input.fillPrice - soldCost ]

updateMockPositionAfterSell(stored, input) ==
  LET costBasisPrice == IF input.avgPrice > 0 THEN input.avgPrice ELSE input.fillPrice
      soldCost == input.fillSize * costBasisPrice
      realizedPnl == input.fillSize * input.fillPrice - soldCost
      newSize == input.positionSize - input.fillSize
      base == IF input.totalBought # 0 THEN input.totalBought ELSE input.initialValue
  IN [ positions |->
         IF newSize <= DustThreshold THEN {}
         ELSE { [ q EXCEPT !.size = newSize,
                           !.totalBought = base - soldCost,
                           !.currentValue = newSize * input.fillPrice,
                           !.cashPnl = newSize * input.fillPrice - (base - soldCost),
                           !.realizedPnl = @ + realizedPnl ] : q \in stored },
       newSize |-> newSize,
       costBasisPrice |-> costBasisPrice,
       soldCost |-> soldCost,
       realizedPnl |-> realizedPnl ]

\* the loop of executeTask moves on to the next pending trade
Finish(l) ==
  [ l EXCEPT !.trades = Tail(@), !.pc = IF Len(l.trades) = 1 THEN "idle" ELSE "loop" ]

Held(l) == { q \in l.myPositions : q.size > 0 }

LedgerStep(l) ==
  /\ ledger' = l
  /\ UNCHANGED << tasks, usedIds, repeatables, retryPending, lock, activities,
                  positions, tradeRecords, mainPc, restoreTodo, job, cmd, faults,
                  removedIds, overrun, call, sizing, sim, recon, live, admit >>

\* One tick up to the loop: ingest the response, load the pending trades,
\* read the own positions and the trader's position once.
Tick(resp, targetSize, fetchOk) ==
  /\ ledger.pc = "idle"
  /\ ledger.ticks < MaxTicks
  /\ Len(ledger.backlog) + Len(OpenRows(resp, FALSE)) <= MaxQueue
  /\ LET open == ledger.backlog \o OpenRows(resp, FALSE)
     IN LedgerStep([ ledger EXCEPT
          !.ticks = @ + 1,
          !.backlog = << >>,
          !.loaded = open,
          !.trades = open,
          !.pc = IF open = << >> THEN "idle" ELSE "loop",
          !.myPositions = IF open = << >> THEN {} ELSE ledger.positions,
          !.target = IF open = << >> \/ ~fetchOk THEN 0 ELSE targetSize,
          !.fetchFailed = open # << >> /\ ~fetchOk,
          !.startSize = IF ledger.positions = {} THEN 0
                        ELSE (CHOOSE q \in ledger.positions : TRUE).size,
          !.sold = 0,
          !.orders = << >>,
          !.fills = 0,
          !.payout = NotAsked ])

\* A tick whose requests are all answered.
MockTick(resp, targetSize) == Tick(resp, targetSize, TRUE)

\* executeTask on a BUY: handleBuyTrade, then the balance.
BuyTrade(ask) ==
  /\ ledger.pc = "loop"
  /\ Head(ledger.trades).side = "BUY"
  /\ LET trade == Head(ledger.trades)
         skipBalanceCheck == ledger.initialFinance <= 0
         finalAmount == IF skipBalanceCheck THEN FixedAmount
                        ELSE calculateOrderSize(FixedAmount, ledger.balance)
         result == simulateBuy(finalAmount, trade.price, ask)
     IN IF Held(ledger) # {} \/ trade.price > 99 \/ finalAmount = 0 \/ ~result.success
        THEN LedgerStep(Finish(ledger))
        ELSE LedgerStep(Finish([ ledger EXCEPT
               !.positions = { [ size |-> result.fillSize,
                                 avgPrice |-> result.fillPrice,
                                 initialValue |-> result.usdcAmount,
                                 currentValue |-> result.fillSize * result.fillPrice,
                                 cashPnl |-> 0,
                                 totalBought |-> result.usdcAmount,
                                 realizedPnl |-> 0 ] },
               !.balance = @ - result.usdcAmount,
               !.fills = @ + 1,
               !.stale = @ \/ ledger.positions # ledger.myPositions ]))

\* executeTask on a SELL: handleSellTrade, then the balance.
SellTrade(bid) ==
  /\ ledger.pc = "loop"
  /\ Head(ledger.trades).side = "SELL"
  /\ IF Held(ledger) = {}
     THEN LedgerStep(Finish(ledger))
     ELSE LET trade == Head(ledger.trades)
              myPosition == CHOOSE q \in Held(ledger) : TRUE
              amount == sellAmount(myPosition, trade, ledger.target, ledger.trades)
              sized == [ ledger EXCEPT !.orders = Append(@, amount) ]
              result == simulateSell(amount, bid)
              sellResult == updateMockPositionAfterSell(ledger.positions,
                              [ fillSize |-> result.fillSize,
                                fillPrice |-> result.fillPrice,
                                avgPrice |-> myPosition.avgPrice,
                                positionSize |-> myPosition.size,
                                totalBought |-> myPosition.totalBought,
                                initialValue |-> myPosition.initialValue ])
          IN IF amount < MinOrderTokens \/ ~result.success
             THEN LedgerStep(Finish(sized))
             ELSE LedgerStep(Finish([ sized EXCEPT
                    !.positions = sellResult.positions,
                    !.balance = @ + result.usdcAmount,
                    !.sold = @ + result.fillSize,
                    !.fills = @ + 1,
                    !.realized = @ + sellResult.realizedPnl,
                    !.writtenOff = @ + (IF sellResult.newSize > 0 /\ sellResult.newSize <= DustThreshold
                                        THEN sellResult.newSize * sellResult.costBasisPrice ELSE 0),
                    !.stale = @ \/ ledger.positions # ledger.myPositions ]))

\* redeemPosition that takes an unsettled condition as settled at payout 0.
redeemPositionUnsettledAsZero(position, payout) ==
  LET payoutRatio == IF payout = NotSettled THEN 0 ELSE payout
  IN [ success |-> TRUE, value |-> position.size * payoutRatio,
       realizedPnl |-> position.size * payoutRatio - position.avgPrice * position.size ]

\* redeemPosition on the mock path: the result; on success the trade record
\* is written and the MockPosition deleted.
redeemPosition(position, payout) ==
  IF payout = NotSettled
  THEN [ success |-> FALSE, value |-> 0, realizedPnl |-> 0 ]
  ELSE LET redeemValue == position.size * payout
           costBasis == position.avgPrice * position.size
       IN [ success |-> TRUE, value |-> redeemValue, realizedPnl |-> redeemValue - costBasis ]

\* executeTask on a REDEEM: handleRedeemTrade, then the balance.
RedeemTrade(payout) ==
  /\ ledger.pc = "loop"
  /\ Head(ledger.trades).side = "REDEEM"
  /\ IF Held(ledger) = {}
     THEN LedgerStep(Finish(ledger))
     ELSE LET position == CHOOSE q \in Held(ledger) : TRUE
              result == redeemPosition(position, payout)
          IN IF ~result.success
             THEN LedgerStep(Finish([ ledger EXCEPT !.payout = payout ]))
             ELSE LedgerStep(Finish([ ledger EXCEPT
                    !.payout = payout,
                    !.positions = {},
                    !.balance = @ + result.value,
                    !.fills = @ + 1,
                    !.realized = @ + result.realizedPnl,
                    !.stale = @ \/ ledger.positions # ledger.myPositions ]))

LedgerNext ==
  \/ \E resp \in LedgerResponses, targetSize \in TargetSizes : MockTick(resp, targetSize)
  \/ \E ask \in Asks : BuyTrade(ask)
  \/ \E bid \in Bids : SellTrade(bid)
  \/ \E payout \in Payouts : RedeemTrade(payout)

LedgerSpec == Init /\ [][LedgerNext]_vars

\* A tick that ends between syncTradeData and the loop: the rows of the
\* response are stored, then getPendingTrades or getMyPositions rejects (or
\* the process stops); executeTask's catch logs it and the rows stay open.
MockTickThrows(resp) ==
  /\ ledger.pc = "idle"
  /\ ledger.ticks < MaxTicks
  /\ OpenRows(resp, FALSE) # << >>
  /\ Len(ledger.backlog) + Len(OpenRows(resp, FALSE)) <= MaxQueue
  /\ LedgerStep([ ledger EXCEPT
        !.ticks = @ + 1,
        !.backlog = @ \o OpenRows(resp, FALSE) ])

\* A tick whose positions request fails: getCopyTraderPositions catches the
\* error and returns [].
MockTickFetchFails(resp, targetSize) ==
  /\ targetSize > 0
  /\ OpenRows(resp, FALSE) # << >>
  /\ Tick(resp, targetSize, FALSE)

\* The ledger with ticks whose positions request fails.
FetchNext ==
  \/ LedgerNext
  \/ \E resp \in LedgerResponses, targetSize \in TargetSizes :
       MockTickFetchFails(resp, targetSize)

FetchSpec == Init /\ [][FetchNext]_vars

\* addTask of a mock draft: initialFinance and currentBalance are the amount given.
AddMockTask(finance) ==
  /\ ledger = NewLedger
  /\ LedgerStep([ ledger EXCEPT !.initialFinance = finance, !.balance = finance ])

\* The ledger of a task added with any amount, with ticks that leave a backlog.
BacklogNext ==
  \/ LedgerNext
  \/ \E finance \in LedgerFinances : AddMockTask(finance)
  \/ \E resp \in LedgerResponses : MockTickThrows(resp)

BacklogSpec == Init /\ [][BacklogNext]_vars

\* ------------------------------------------- the SELL handlers on their own
\* Pending rows of the task with the SELL being handled first.
SellQueues == { q \in LedgerResponses : q # << >> /\ Head(q).side = "SELL" }

\* handleLiveSellTrade: the amount before the minimum and the cap.
liveBaseSellSize(own, totalBoughtTokens, trade, targetSize, pending) ==
  IF targetSize = Absent THEN own
  ELSE ((IF totalBoughtTokens > 0 THEN totalBoughtTokens ELSE own) * trade.size)
         \div (targetSize + totalUnprocessedSellSize(pending))

\* executeLiveSellOrders: what the order loop can end up selling of an amount.
LiveSold(amount) ==
  { 0, amount } \cup { d \in BidDepths : d < amount }

\* the variables a call of a SELL sizing handler leaves alone
SizingFrame ==
  UNCHANGED << tasks, usedIds, repeatables, retryPending, lock, activities,
                  positions, tradeRecords, mainPc, restoreTodo, job, cmd, faults,
                  removedIds, overrun, call, ledger, sim, recon, live, admit >>

\* handleSellTrade(trade, myPosition, copyTraderPosition) with the pending
\* rows of the task.
MockSellCall(own, pending, targetSize, bid) ==
  LET amount == sellAmount([ size |-> own ], Head(pending), targetSize, pending)
      result == simulateSell(amount, bid)
      placed == amount >= MinOrderTokens
  IN /\ sizing' = [ mode |-> "mock", own |-> own, tracked |-> 0, pending |-> pending,
                     target |-> targetSize, base |-> amount,
                     order |-> IF placed THEN amount ELSE 0,
                     sold |-> IF placed /\ result.success THEN result.fillSize ELSE 0 ]
     /\ SizingFrame

\* handleLiveSellTrade(trade, myPosition, copyTraderPosition) with the
\* pending rows and the tracked purchases of the task.
LiveSellCall(own, totalBoughtTokens, pending, targetSize) ==
  LET base == liveBaseSellSize(own, totalBoughtTokens, Head(pending), targetSize, pending)
      remaining == IF base < MinOrderTokens THEN 0 ELSE IF base > own THEN own ELSE base
  IN \E sold \in LiveSold(remaining) :
       /\ sizing' = [ mode |-> "live", own |-> own, tracked |-> totalBoughtTokens,
                       pending |-> pending, target |-> targetSize, base |-> base,
                       order |-> remaining, sold |-> sold ]
       /\ SizingFrame

SizingNext ==
  \/ \E own \in OwnSizes, pending \in SellQueues, targetSize \in TargetSizes \cup { Absent },
        bid \in Bids : MockSellCall(own, pending, targetSize, bid)
  \/ \E own \in OwnSizes, tracked \in TrackedSizes, pending \in SellQueues,
        targetSize \in TargetSizes \cup { Absent } :
          LiveSellCall(own, tracked, pending, targetSize)

SizingSpec == Init /\ [][SizingNext]_vars

\* --------------------------------------- simulateOrderExecution on its own
\* One side of a book: some levels, each once, in the order the API lists them.
Books(levels) ==
  LET S == UNION { [ 1..n -> levels ] : n \in 0..MaxLevels }
  IN { b \in S : \A i, k \in DOMAIN b : i # k => b[i] # b[k] }

\* [...].sort by price: ascending for asks, descending for bids.
RECURSIVE SortLevels(_, _)
SortLevels(S, ascending) ==
  IF S = {} THEN << >>
  ELSE LET first == CHOOSE x \in S : \A y \in S :
                      /\ (IF ascending THEN x.price <= y.price ELSE x.price >= y.price)
                      /\ (x.price = y.price => x.size <= y.size)
       IN << first >> \o SortLevels(S \ { first }, ascending)

LevelsOf(book) == { book[i] : i \in DOMAIN book }

NoResult == [ success |-> FALSE, fillSize |-> 0, usdcAmount |-> 0, weightedPriceSum |-> 0 ]

\* the loop over sortedAsks: dollars left, tokens bought, sum of tokens x price
RECURSIVE WalkAsks(_, _, _, _)
WalkAsks(asks, remainingUsd, totalTokens, weightedPriceSum) ==
  IF asks = << >> \/ remainingUsd <= 0
  THEN [ remainingUsd |-> remainingUsd, totalTokens |-> totalTokens,
         weightedPriceSum |-> weightedPriceSum ]
  ELSE LET ask == Head(asks)
           askValueUsd == ask.size * ask.price
           fillUsd == IF remainingUsd < askValueUsd THEN remainingUsd ELSE askValueUsd
           fillTokens == fillUsd \div ask.price
       IN WalkAsks(Tail(asks), remainingUsd - fillUsd, totalTokens + fillTokens,
                   weightedPriceSum + fillTokens * ask.price)

\* the loop over sortedBids: tokens left, dollars received
RECURSIVE WalkBids(_, _, _)
WalkBids(bids, remainingTokens, totalUsd) ==
  IF bids = << >> \/ remainingTokens <= 0
  THEN [ remainingTokens |-> remainingTokens, totalUsd |-> totalUsd ]
  ELSE LET bid == Head(bids)
           fillTokens == IF remainingTokens < bid.size THEN remainingTokens ELSE bid.size
       IN WalkBids(Tail(bids), remainingTokens - fillTokens, totalUsd + fillTokens * bid.price)

\* |avgFillPrice - targetPrice| / targetPrice * 100 > 5, with
\* avgFillPrice = weightedPriceSum / totalTokens
SlippageTooHigh(weightedPriceSum, totalTokens, targetPrice) ==
  LET gap == IF weightedPriceSum >= targetPrice * totalTokens
             THEN weightedPriceSum - targetPrice * totalTokens
             ELSE targetPrice * totalTokens - weightedPriceSum
  IN gap * 100 > 5 * targetPrice * totalTokens

\* The BUY branch without the slippage return.
simulateOrderExecutionBuyAnyPrice(amount, targetPrice, book) ==
  LET w == WalkAsks(SortLevels(LevelsOf(book), TRUE), amount, 0, 0)
  IN IF book = << >> \/ w.totalTokens = 0 THEN NoResult
     ELSE [ success |-> TRUE, fillSize |-> w.totalTokens,
            usdcAmount |-> amount - w.remainingUsd, weightedPriceSum |-> w.weightedPriceSum ]

simulateOrderExecutionBuy(amount, targetPrice, book) ==
  LET w == WalkAsks(SortLevels(LevelsOf(book), TRUE), amount, 0, 0)
  IN IF book = << >> \/ w.totalTokens = 0 THEN NoResult
     ELSE [ success |-> ~SlippageTooHigh(w.weightedPriceSum, w.totalTokens, targetPrice),
            fillSize |-> w.totalTokens,
            usdcAmount |-> amount - w.remainingUsd, weightedPriceSum |-> w.weightedPriceSum ]

simulateOrderExecutionSell(amount, targetPrice, book) ==
  LET validBids == { bid \in LevelsOf(book) : bid.price > 0 /\ bid.size > 0 }
      w == WalkBids(SortLevels(validBids, FALSE), amount, 0)
      filledTokens == amount - w.remainingTokens
  IN IF book = << >> \/ validBids = {} \/ filledTokens = 0 THEN NoResult
     ELSE [ success |-> TRUE, fillSize |-> filledTokens, usdcAmount |-> w.totalUsd,
            weightedPriceSum |-> w.totalUsd ]

\* the variables a call of simulateOrderExecution leaves alone
SimFrame ==
  UNCHANGED << tasks, usedIds, repeatables, retryPending, lock, activities,
                  positions, tradeRecords, mainPc, restoreTodo, job, cmd, faults,
                  removedIds, overrun, call, ledger, sizing, recon, live, admit >>

SimulateBuyCall(amount, targetPrice, book) ==
  /\ sim' = [ side |-> "BUY", amount |-> amount, targetPrice |-> targetPrice, book |-> book,
              result |-> simulateOrderExecutionBuy(amount, targetPrice, book) ]
  /\ SimFrame

SimulateSellCall(amount, targetPrice, book) ==
  /\ sim' = [ side |-> "SELL", amount |-> amount, targetPrice |-> targetPrice, book |-> book,
              result |-> simulateOrderExecutionSell(amount, targetPrice, book) ]
  /\ SimFrame

SimNext ==
  \/ \E amount \in BuyAmounts, targetPrice \in TargetPrices, book \in Books(Levels) :
       SimulateBuyCall(amount, targetPrice, book)
  \/ \E amount \in OwnSizes, targetPrice \in TargetPrices,
        book \in Books(Levels \cup { [ price |-> 0, size |-> 30 * TokenUnit ] }) :
       SimulateSellCall(amount, targetPrice, book)

SimSpec == Init /\ [][SimNext]_vars

\* ------------------------------------------------- the position reconciler
\* A MockPosition of 50 tokens bought at 0.40.
OwnPosition(c) ==
  [ conditionId |-> c, size |-> 50 * TokenUnit, avgPrice |-> 40,
    initialValue |-> 50 * TokenUnit * 40, currentValue |-> 50 * TokenUnit * 40,
    cashPnl |-> 0, totalBought |-> 50 * TokenUnit * 40, realizedPnl |-> 0 ]

\* MockPosition.find: the documents of the task, one per conditionId
ByCondition(S) ==
  LET F[i \in 0..Len(CondOrder)] ==
        IF i = 0 THEN << >>
        ELSE F[i - 1] \o (IF \E q \in S : q.conditionId = CondOrder[i]
                          THEN << CHOOSE q \in S : q.conditionId = CondOrder[i] >>
                          ELSE << >>)
  IN F[Len(CondOrder)]

ReconStep(r) ==
  /\ recon' = r
  /\ UNCHANGED << tasks, usedIds, repeatables, retryPending, lock, activities,
                  positions, tradeRecords, mainPc, restoreTodo, job, cmd, faults,
                  removedIds, overrun, call, ledger, sizing, sim, live, admit >>

\* What an earlier run of the process left in the stores and at the venue.
PriorRun(held, venue) ==
  /\ recon.pc = "off"
  /\ ReconStep([ recon EXCEPT !.pc = "start",
                              !.own = { OwnPosition(c) : c \in held },
                              !.target = venue ])

NoValidBid(book) == \A bid \in LevelsOf(book) : ~(bid.price > 0 /\ bid.size > 0)

\* forcedClosePosition that gives up, as a simulated BUY does, when the fill
\* price is more than 5% away from the best bid.
forcedClosePositionWithCeiling(stored, myPosition, book, payout) ==
  LET mine == { q \in stored : q.conditionId = myPosition.conditionId }
      validBids == { bid \in LevelsOf(book) : bid.price > 0 /\ bid.size > 0 }
  IN IF myPosition.size <= 0
     THEN [ positions |-> stored, value |-> 0, redeemed |-> FALSE, sold |-> 0, records |-> 0 ]
     ELSE IF validBids = {}
     THEN LET redeem == redeemPosition(myPosition, payout)
          IN [ positions |-> IF redeem.success THEN stored \ mine ELSE stored,
               value |-> redeem.value, redeemed |-> TRUE, sold |-> 0,
               records |-> IF redeem.success THEN 1 ELSE 0 ]
     ELSE LET targetPrice == (CHOOSE b \in validBids : \A o \in validBids : b.price >= o.price).price
              result == simulateOrderExecutionSell(myPosition.size, targetPrice, book)
              sellResult == updateMockPositionAfterSell(mine,
                              [ fillSize |-> result.fillSize,
                                fillPrice |-> result.usdcAmount \div result.fillSize,
                                avgPrice |-> myPosition.avgPrice,
                                positionSize |-> myPosition.size,
                                totalBought |-> myPosition.totalBought,
                                initialValue |-> myPosition.initialValue ])
          IN IF ~result.success
                \/ SlippageTooHigh(result.weightedPriceSum, result.fillSize, targetPrice)
             THEN [ positions |-> stored, value |-> 0, redeemed |-> FALSE, sold |-> 0,
                    records |-> 0 ]
             ELSE [ positions |-> (stored \ mine) \cup sellResult.positions,
                    value |-> result.usdcAmount, redeemed |-> FALSE,
                    sold |-> result.fillSize, records |-> 1 ]

\* forcedClosePosition on the mock path: the stored positions after it, the
\* amount it returns, whether it went to redeemPosition, the tokens sold and
\* the trade records written.
forcedClosePosition(stored, myPosition, book, payout) ==
  LET mine == { q \in stored : q.conditionId = myPosition.conditionId }
      validBids == { bid \in LevelsOf(book) : bid.price > 0 /\ bid.size > 0 }
  IN IF myPosition.size <= 0
     THEN [ positions |-> stored, value |-> 0, redeemed |-> FALSE, sold |-> 0, records |-> 0 ]
     ELSE IF validBids = {}
     THEN LET redeem == redeemPosition(myPosition, payout)
          IN [ positions |-> IF redeem.success THEN stored \ mine ELSE stored,
               value |-> redeem.value, redeemed |-> TRUE, sold |-> 0,
               records |-> IF redeem.success THEN 1 ELSE 0 ]
     ELSE LET targetPrice == (CHOOSE b \in validBids : \A o \in validBids : b.price >= o.price).price
              result == simulateOrderExecutionSell(myPosition.size, targetPrice, book)
              sellResult == updateMockPositionAfterSell(mine,
                              [ fillSize |-> result.fillSize,
                                fillPrice |-> result.usdcAmount \div result.fillSize,
                                avgPrice |-> myPosition.avgPrice,
                                positionSize |-> myPosition.size,
                                totalBought |-> myPosition.totalBought,
                                initialValue |-> myPosition.initialValue ])
          IN IF ~result.success
             THEN [ positions |-> stored, value |-> 0, redeemed |-> FALSE, sold |-> 0,
                    records |-> 0 ]
             ELSE [ positions |-> (stored \ mine) \cup sellResult.positions,
                    value |-> result.usdcAmount, redeemed |-> FALSE,
                    sold |-> result.fillSize, records |-> 1 ]

\* startTaskWorker reaches a running task: reconcilePositionsOnStartup up to
\* its loop.  getCopyTraderPositions answers [] when the request fails.
ReconcileStart(fetchOk) ==
  /\ recon.pc = "start"
  /\ IF recon.own = {}
     THEN ReconStep([ recon EXCEPT !.pc = "running", !.last = NoClose ])
     ELSE ReconStep([ recon EXCEPT
            !.pc = "loop",
            !.fetched = IF fetchOk THEN recon.target ELSE [ c \in Conditions |-> Absent ],
            !.todo = ByCondition(recon.own),
            !.last = NoClose ])

\* One iteration of the loop over myPositions.
ReconcileVisit(book, payout) ==
  /\ recon.pc = "loop"
  /\ LET myPosition == Head(recon.todo)
         copySize == recon.fetched[myPosition.conditionId]
         close == forcedClosePosition(recon.own, myPosition, book, payout)
         next == [ recon EXCEPT
                   !.todo = Tail(@),
                   !.pc = IF Len(recon.todo) = 1 THEN "running" ELSE "loop",
                   !.fetched = IF Len(recon.todo) = 1 THEN NoRecon.fetched ELSE @,
                   !.last = NoClose ]
     IN IF copySize = Absent \/ copySize <= 0
        THEN ReconStep([ next EXCEPT
               !.own = close.positions,
               !.balance = IF close.value > 0 THEN @ + close.value ELSE @,
               !.records = @ + close.records,
               !.last = [ conditionId |-> myPosition.conditionId, book |-> book,
                          payout |-> IF close.redeemed THEN payout ELSE NotAsked,
                          thrown |-> FALSE,
                          redeemed |-> close.redeemed, sold |-> close.sold,
                          value |-> close.value, records |-> close.records ] ])
        ELSE ReconStep(next)

\* getOrderBook throws inside the forced close: the catch of
\* reconcilePositionsOnStartup ends the run.
ReconcileThrows ==
  /\ recon.pc = "loop"
  /\ LET myPosition == Head(recon.todo)
         copySize == recon.fetched[myPosition.conditionId]
     IN /\ copySize = Absent \/ copySize <= 0
        /\ ReconStep([ recon EXCEPT
             !.pc = "running", !.todo = << >>, !.fetched = NoRecon.fetched,
             !.last = [ NoClose EXCEPT !.conditionId = myPosition.conditionId,
                                       !.thrown = TRUE ] ])

Orphans(r) == { q \in r.own : r.target[q.conditionId] = Absent \/ r.target[q.conditionId] <= 0 }

\* The followed trader leaves a market.
TargetLeaves(c) ==
  /\ recon.pc = "running"
  /\ recon.target[c] > 0
  /\ ReconStep([ recon EXCEPT !.target[c] = Absent, !.last = NoClose ])

\* executeTask with no pending trade.
ReconTick ==
  /\ recon.pc = "running"
  /\ recon.orphanTicks < MaxSweepTicks
  /\ ReconStep([ recon EXCEPT
       !.orphanTicks = IF Orphans(recon) = {} THEN 0 ELSE @ + 1,
       !.last = NoClose ])

\* The process is started again.
ReconRestart ==
  /\ recon.pc = "running"
  /\ ReconStep([ recon EXCEPT !.pc = "start", !.last = NoClose ])

ReconcileNext ==
  \/ \E held \in SUBSET Conditions, venue \in [ Conditions -> VenueSizes ] : PriorRun(held, venue)
  \/ \E fetchOk \in BOOLEAN : ReconcileStart(fetchOk)
  \/ \E book \in Books(CloseBids), payout \in Payouts : ReconcileVisit(book, payout)
  \/ ReconcileThrows
  \/ \E c \in Conditions : TargetLeaves(c)
  \/ ReconRestart

ReconcileSpec == Init /\ [][ReconcileNext]_vars

\* The ticks after a startup whose forced closes meet a deep book.
SweepNext ==
  \/ \E held \in SUBSET Conditions, venue \in [ Conditions -> VenueSizes ] : PriorRun(held, venue)
  \/ \E fetchOk \in BOOLEAN : ReconcileStart(fetchOk)
  \/ ReconcileVisit(<< [ price |-> 45, size |-> 1000 * TokenUnit ] >>, NotSettled)
  \/ \E c \in Conditions : TargetLeaves(c)
  \/ ReconTick

SweepSpec == Init /\ [][SweepNext]_vars

\* ------------------------------------------------------- the Live handlers
LiveStreams == UNION { [ 1..n -> { "BUY", "SELL" } ] : n \in 1..MaxLiveTrades }

NoAsk == [ price |-> 0, size |-> 0 ]
\* the best ask of a book: 50, 97.5 or 1000 tokens at 0.20, or 1000 tokens
\* at 0.25 or 0.26
LiveAsks ==
  { NoAsk } \cup [ price : { 20 }, size : { 50 * TokenUnit, 9750, 1000 * TokenUnit } ]
            \cup [ price : { 25, 26 }, size : { 1000 * TokenUnit } ]
\* postOrder: accepted, rejected for balance or allowance, rejected otherwise
LiveOrderResults == { "ok", "funds", "fail" }
\* getMyBalance: it throws (-1), or the dollars in the wallet
LiveBalances == { -1, 0, InitialFinance }

LiveStep(l) ==
  /\ live' = l
  /\ UNCHANGED << tasks, usedIds, repeatables, retryPending, lock, activities,
                  positions, tradeRecords, mainPc, restoreTodo, job, cmd, faults,
                  removedIds, overrun, call, ledger, sizing, sim, recon, admit >>

\* fetchNewTradeData stored the rows; none is handled yet.
LiveArrive(stream) ==
  /\ live.pc = "off"
  /\ LiveStep([ live EXCEPT
       !.pc = "idle",
       !.acts = [ i \in DOMAIN stream |->
                    [ side |-> stream[i], done |-> FALSE, attempts |-> 0, myBoughtSize |-> 0 ] ],
       !.records = [ i \in DOMAIN stream |-> 0 ],
       !.filled = [ i \in DOMAIN stream |-> 0 ] ])

\* The lookup for an earlier purchase, switched off.
existingBuyNever(acts) == FALSE

\* UserActivity.findOne({ side: 'BUY', bot: true, myBoughtSize: { $gt: 0 } })
existingBuy(acts) ==
  \E k \in DOMAIN acts : acts[k].side = "BUY" /\ acts[k].done /\ acts[k].myBoughtSize > 0

\* The guard with its operands exchanged.
slippageGuardInverted(askPrice, tradePrice, roundsUp) ==
  tradePrice - LiveSlippage > askPrice

\* parseFloat(minPriceAsk.price) - 0.05 > trade.price; at a difference of
\* exactly 0.05 the floating-point subtraction decides.
slippageGuard(askPrice, tradePrice, roundsUp) ==
  \/ askPrice - LiveSlippage > tradePrice
  \/ askPrice - LiveSlippage = tradePrice /\ roundsUp

Skipped(l, i) ==
  [ l EXCEPT !.pc = "idle", !.cur = i, !.order = NoOrder,
             !.acts[i].done = TRUE, !.acts[i].attempts = ProcessedSentinel ]

\* handleLiveBuyTrade up to the order loop.  stale: the positions API does
\* not show the tokens yet.
LiveBuyBegin(stale, balance, clientOk) ==
  /\ live.pc = "idle"
  /\ live.cur < Len(live.acts)
  /\ live.acts[live.cur + 1].side = "BUY"
  /\ LET i == live.cur + 1
         myPosition == IF stale THEN 0 ELSE live.held
         finalAmount == IF balance < 0 THEN 0 ELSE calculateOrderSize(FixedAmount, balance)
     IN IF \/ LiveTradePrice > 99
           \/ myPosition > 0
           \/ existingBuy(live.acts)
           \/ finalAmount = 0
        THEN LiveStep(Skipped(live, i))
        ELSE IF ~clientOk
        THEN LiveStep([ live EXCEPT !.pc = "idle", !.cur = i, !.order = NoOrder ])
        ELSE LiveStep([ live EXCEPT !.pc = "buyloop", !.cur = i, !.order = NoOrder,
                                    !.remaining = finalAmount, !.retry = 0,
                                    !.abort = FALSE, !.total = 0 ])

\* One iteration of the while loop of handleLiveBuyTrade.
LiveBuyIteration(ask, resp, roundsUp) ==
  /\ live.pc = "buyloop"
  /\ LET i == live.cur
         orderSize == IF live.remaining < ask.size * ask.price THEN live.remaining
                      ELSE ask.size * ask.price
         tokensBought == orderSize \div ask.price
         leave(l) == [ l EXCEPT !.pc = "buymark" ]
         again(l) == [ l EXCEPT !.pc = IF l.remaining > 0 /\ l.retry < LiveRetryLimit
                                       THEN "buyloop" ELSE "buymark" ]
         seen == [ live EXCEPT !.order = [ seen |-> ask.price, amount |-> 0 ] ]
         sent == [ live EXCEPT !.order = [ seen |-> ask.price, amount |-> orderSize ] ]
     IN IF ask = NoAsk
        THEN LiveStep(leave([ seen EXCEPT !.acts[i].done = TRUE ]))
        ELSE IF slippageGuard(ask.price, LiveTradePrice, roundsUp)
        THEN LiveStep(leave([ seen EXCEPT !.acts[i].done = TRUE ]))
        ELSE IF live.remaining < MinOrderUsd
        THEN LiveStep(leave([ seen EXCEPT !.acts[i].done = TRUE,
                                          !.acts[i].myBoughtSize = live.total ]))
        ELSE IF resp = "ok"
        THEN LiveStep(again([ sent EXCEPT !.retry = 0,
                                          !.total = @ + tokensBought,
                                          !.remaining = @ - orderSize,
                                          !.held = @ + tokensBought,
                                          !.filled[i] = @ + tokensBought ]))
        ELSE IF resp = "funds"
        THEN LiveStep(leave([ sent EXCEPT !.abort = TRUE ]))
        ELSE LiveStep(again([ sent EXCEPT !.retry = @ + 1 ]))

\* getOrderBook or postOrder rejects inside the loop: the handler is left
\* and executeTask's catch ends the tick.
LiveBuyThrows ==
  /\ live.pc = "buyloop"
  /\ LiveStep([ live EXCEPT !.pc = "idle", !.cur = Len(live.acts), !.order = NoOrder ])

\* The UserActivity.updateOne after the loop.
LiveBuyMark ==
  /\ live.pc = "buymark"
  /\ LET i == live.cur
         marked == [ live EXCEPT !.order = NoOrder,
                                 !.acts[i].done = TRUE,
                                 !.acts[i].myBoughtSize = live.total,
                                 !.acts[i].attempts =
                                    IF live.abort THEN LiveRetryLimit
                                    ELSE IF live.retry >= LiveRetryLimit THEN live.retry
                                    ELSE @ ]
     IN LiveStep([ marked EXCEPT !.pc = IF live.abort THEN "idle" ELSE "buyrecord" ])

\* persistTradeRecord for the aggregate fill.
LiveBuyRecord ==
  /\ live.pc = "buyrecord"
  /\ LiveStep([ live EXCEPT !.pc = "idle",
                            !.records[live.cur] = IF live.total > 0 THEN @ + 1 ELSE @ ])

\* rows found by UserActivity.find({ side: 'BUY', bot: true, myBoughtSize > 0 })
previousBuys(acts) ==
  { k \in DOMAIN acts : acts[k].side = "BUY" /\ acts[k].done /\ acts[k].myBoughtSize > 0 }

RECURSIVE SumBought(_, _)
SumBought(acts, K) ==
  IF K = {} THEN 0
  ELSE LET k == CHOOSE x \in K : TRUE IN acts[k].myBoughtSize + SumBought(acts, K \ { k })

\* the SELL rows with bot not true, as the handler's query returns them
UnprocessedSells(acts) ==
  LET F[i \in 0..Len(acts)] ==
        IF i = 0 THEN << >>
        ELSE F[i - 1] \o (IF acts[i].side = "SELL" /\ ~acts[i].done
                          THEN << [ side |-> "SELL", size |-> LiveSellSize, price |-> 0 ] >>
                          ELSE << >>)
  IN F[Len(acts)]

\* handleLiveSellTrade through executeLiveSellOrders and the update of the
\* tracked purchases.
LiveSellBegin(stale, targetSize, clientOk, funds) ==
  /\ live.pc = "idle"
  /\ live.cur < Len(live.acts)
  /\ live.acts[live.cur + 1].side = "SELL"
  /\ LET i == live.cur + 1
         myPosition == IF stale THEN 0 ELSE live.held
         K == previousBuys(live.acts)
         totalBoughtTokens == SumBought(live.acts, K)
         pending == UnprocessedSells(live.acts)
         base == liveBaseSellSize(myPosition, totalBoughtTokens,
                                  [ side |-> "SELL", size |-> LiveSellSize, price |-> 0 ],
                                  targetSize, pending)
         remaining == IF base > myPosition THEN myPosition ELSE base
     IN IF myPosition <= 0
        THEN LiveStep(Skipped(live, i))
        ELSE IF base < MinOrderTokens
        THEN LiveStep([ live EXCEPT !.pc = "idle", !.cur = i, !.order = NoOrder,
                                    !.acts[i].done = TRUE ])
        ELSE IF ~clientOk
        THEN LiveStep([ live EXCEPT !.pc = "idle", !.cur = i, !.order = NoOrder ])
        ELSE \E sold \in LiveSold(remaining) :
               LET cleared == sold > 0 /\ totalBoughtTokens > 0
                              /\ sold * 100 >= 99 * totalBoughtTokens
                   scaled == sold > 0 /\ totalBoughtTokens > 0 /\ ~cleared
                   tracked == [ k \in DOMAIN live.acts |->
                                  IF k \in K /\ cleared
                                  THEN [ live.acts[k] EXCEPT !.myBoughtSize = 0 ]
                                  ELSE IF k \in K /\ scaled
                                  THEN [ live.acts[k] EXCEPT !.myBoughtSize =
                                           @ - (@ * sold) \div totalBoughtTokens ]
                                  ELSE live.acts[k] ]
               IN LiveStep([ live EXCEPT
                    !.pc = "sellmark", !.cur = i, !.order = NoOrder,
                    !.acts = tracked,
                    !.total = sold,
                    !.abort = funds /\ sold < remaining,
                    !.retry = IF sold < remaining /\ ~funds THEN LiveRetryLimit ELSE 0,
                    !.held = @ - sold,
                    !.filled[i] = sold ])

\* The UserActivity.updateOne after the orders.
LiveSellMark ==
  /\ live.pc = "sellmark"
  /\ LiveStep([ live EXCEPT
       !.pc = "sellrecord",
       !.acts[live.cur].done = TRUE,
       !.acts[live.cur].attempts = IF live.abort THEN LiveRetryLimit
                                   ELSE IF live.retry >= LiveRetryLimit THEN live.retry
                                   ELSE @ ])

\* persistTradeRecord, also after an insufficient-funds rejection.
LiveSellRecord ==
  /\ live.pc = "sellrecord"
  /\ LiveStep([ live EXCEPT !.pc = "idle",
                            !.records[live.cur] = IF live.total > 0 THEN @ + 1 ELSE @ ])

LiveOrderNext ==
  \/ \E stream \in LiveStreams : LiveArrive(stream)
  \/ \E stale \in BOOLEAN, balance \in LiveBalances, clientOk \in BOOLEAN :
       LiveBuyBegin(stale, balance, clientOk)
  \/ \E ask \in LiveAsks, resp \in LiveOrderResults, roundsUp \in BOOLEAN :
       LiveBuyIteration(ask, resp, roundsUp)
  \/ LiveBuyThrows
  \/ LiveBuyMark
  \/ LiveBuyRecord
  \/ \E stale \in BOOLEAN, targetSize \in { Absent, LiveSellSize }, clientOk \in BOOLEAN,
        funds \in BOOLEAN : LiveSellBegin(stale, targetSize, clientOk, funds)
  \/ LiveSellMark
  \/ LiveSellRecord

LiveOrderSpec == Init /\ [][LiveOrderNext]_vars

\* ------------------------------------------------- the order loops alone
\* sellAmount handed to executeLiveSellOrders: nothing, half a token, 20.5
\* tokens, the trader's SELL size
SellAmounts == { 0, TokenUnit \div 2, 20 * TokenUnit + TokenUnit \div 2, LiveSellSize }
\* the best bid of a book: none, or half a token, 20 tokens or 1000 tokens
\* at 0.20
LiveBids ==
  { NoAsk } \cup [ price : { 20 }, size : { TokenUnit \div 2, 20 * TokenUnit, 1000 * TokenUnit } ]

\* executeLiveSellOrders up to its while loop.
executeLiveSellOrders(tokens) ==
  /\ live.pc = "off"
  /\ LiveStep([ NoLive EXCEPT !.pc = IF tokens > 0 THEN "sellloop" ELSE "sellreturn",
                              !.remaining = tokens ])

\* The loop with a condition that does not look at the failure count.
SellLoopIterationUnbounded(bid, resp) ==
  /\ live.pc = "sellloop"
  /\ LET orderSellAmount == IF live.remaining < bid.size THEN live.remaining ELSE bid.size
         leave(l) == [ l EXCEPT !.pc = "sellreturn" ]
         again(l) == [ l EXCEPT !.pc = IF l.remaining > 0 THEN "sellloop" ELSE "sellreturn" ]
         sent == [ live EXCEPT !.order = [ seen |-> bid.price, amount |-> orderSellAmount ] ]
     IN IF bid = NoAsk \/ live.remaining < MinOrderTokens \/ orderSellAmount < MinOrderTokens
        THEN LiveStep(leave(live))
        ELSE IF resp = "ok"
        THEN LiveStep(again([ sent EXCEPT !.retry = 0,
                                          !.total = @ + orderSellAmount,
                                          !.remaining = @ - orderSellAmount ]))
        ELSE IF resp = "funds"
        THEN LiveStep(leave([ sent EXCEPT !.abort = TRUE ]))
        ELSE LiveStep(again([ sent EXCEPT !.retry = @ + 1 ]))

\* One iteration of the while loop of executeLiveSellOrders.
SellLoopIteration(bid, resp) ==
  /\ live.pc = "sellloop"
  /\ LET orderSellAmount == IF live.remaining < bid.size THEN live.remaining ELSE bid.size
         leave(l) == [ l EXCEPT !.pc = "sellreturn" ]
         again(l) == [ l EXCEPT !.pc = IF l.remaining > 0 /\ l.retry < LiveRetryLimit
                                       THEN "sellloop" ELSE "sellreturn" ]
         sent == [ live EXCEPT !.order = [ seen |-> bid.price, amount |-> orderSellAmount ] ]
     IN IF bid = NoAsk \/ live.remaining < MinOrderTokens \/ orderSellAmount < MinOrderTokens
        THEN LiveStep(leave(live))
        ELSE IF resp = "ok"
        THEN LiveStep(again([ sent EXCEPT !.retry = 0,
                                          !.total = @ + orderSellAmount,
                                          !.remaining = @ - orderSellAmount ]))
        ELSE IF resp = "funds"
        THEN LiveStep(leave([ sent EXCEPT !.abort = TRUE ]))
        ELSE LiveStep(again([ sent EXCEPT !.retry = @ + 1 ]))

\* getOrderBook, createMarketOrder or postOrder rejects: the call is left
\* through the exception.
SellLoopThrows ==
  /\ live.pc = "sellloop"
  /\ LiveStep(NoLive)

\* return { totalSoldTokens, totalReceivedUsd, abortedDueToFunds, retryCount }
SellLoopReturn ==
  /\ live.pc = "sellreturn"
  /\ LiveStep(NoLive)

OrderLoopNext ==
  \/ LiveOrderNext
  \/ \E tokens \in SellAmounts : executeLiveSellOrders(tokens)
  \/ \E bid \in LiveBids, resp \in LiveOrderResults : SellLoopIteration(bid, resp)
  \/ SellLoopThrows
  \/ SellLoopReturn

\* The venue answers every call: an iteration that is pending is carried out.
LoopsRun ==
  /\ WF_vars(\E ask \in LiveAsks, resp \in LiveOrderResults, roundsUp \in BOOLEAN :
               LiveBuyIteration(ask, resp, roundsUp))
  /\ WF_vars(\E bid \in LiveBids, resp \in LiveOrderResults : SellLoopIteration(bid, resp))

OrderLoopSpec == Init /\ [][OrderLoopNext]_vars /\ LoopsRun

\* ================================================================ CreateSpec
\* Task creation through its two entry points: the pub/sub "add" message
\* (validateIncomingMessage, handleAddTask, addTask) and the chat commands
\* /mock and /start (addTask directly).
MaxCreated == 2

\* private keys a draft can carry; "junk" makes new ethers.Wallet throw
PrivateKeys == { "k1", "k2", "junk", "" }
\* wallet.address of the key, in checksum case
AddressOf(privateKey) == IF privateKey = "k1" THEN "0xAbC1" ELSE "0xDeF2"
WalletInputs == { "0xAbC1", "0xabc1", "0xDeF2", "" }
toLowerCase(a) ==
  IF a = "0xAbC1" THEN "0xabc1" ELSE IF a = "0xDeF2" THEN "0xdef2" ELSE a

\* getMyBalance of the operator wallet; -1: the RPC call throws
WalletBalances == { -1, 0, 3 * FixedAmount }
\* initialAmount / finance of a mock draft
MockFinances == { 0 - MinOrderUsd, 0, InitialFinance }

KeyDerivesWallet(privateKey, myWalletAddress) ==
  /\ privateKey \in { "k1", "k2" }
  /\ toLowerCase(AddressOf(privateKey)) = toLowerCase(myWalletAddress)

\* validateAddTask: TRUE when it returns without throwing
validateAddTask(draft) ==
  IF draft.type = "mock"
    THEN draft.fixedAmount > 0 /\ draft.initialFinance > 0
    ELSE /\ draft.fixedAmount > 0
         /\ draft.privateKey # ""
         /\ draft.myWalletAddress # ""
         /\ KeyDerivesWallet(draft.privateKey, draft.myWalletAddress)

MockDrafts ==
  [ type : {"mock"}, privateKey : {""}, myWalletAddress : {""},
    fixedAmount : {0, FixedAmount}, initialFinance : MockFinances ]
LiveDrafts ==
  [ type : {"live"}, privateKey : PrivateKeys, myWalletAddress : WalletInputs,
    fixedAmount : {FixedAmount}, initialFinance : {0} ]

AdmitStep(a) ==
  /\ admit' = a
  /\ UNCHANGED << tasks, usedIds, repeatables, retryPending, lock, activities,
                  positions, tradeRecords, mainPc, restoreTodo, job, cmd, faults,
                  removedIds, overrun, call, ledger, sizing, sim, recon, live >>

Rejected == AdmitStep([ admit EXCEPT !.last = "rejected" ])

\* addTask: a fresh id, the balance read of a live task, hSet, scheduleTaskJob
addTask(draft, balance) ==
  IF draft.type = "live" /\ balance < 0
    THEN Rejected
    ELSE LET id == Cardinality(admit.store) + 1
             task == [ id |-> id, type |-> draft.type,
                       privateKey |-> draft.privateKey,
                       myWalletAddress |-> draft.myWalletAddress,
                       currentBalance |-> IF draft.type = "live" THEN balance
                                          ELSE draft.initialFinance ]
         IN AdmitStep([ store |-> admit.store \cup {task},
                        scheduled |-> admit.scheduled \cup {id},
                        last |-> "stored" ])

\* pub/sub message {action: "add"}: validateIncomingMessage, then handleAddTask
PubSubAdd(draft, balance) ==
  /\ Cardinality(admit.store) < MaxCreated
  /\ IF ~validateAddTask(draft) THEN Rejected
     ELSE IF draft.type = "live" /\ balance < 3 * draft.fixedAmount THEN Rejected
     ELSE addTask(draft, balance)

\* bot.command('mock') and bot.command('start'): parse, then addTask
ChatCommand(draft, balance) ==
  /\ Cardinality(admit.store) < MaxCreated
  /\ addTask(draft, balance)

CreateNext ==
  \E draft \in MockDrafts \cup LiveDrafts, balance \in WalletBalances :
    \/ PubSubAdd(draft, balance)
    \/ ChatCommand(draft, balance)

CreateSpec == Init /\ [][CreateNext]_vars


\* ================================================================ claims
TicksIn(t) == { j \in Slots : InBody(job[j]) /\ job[j].task = t }

Holds(j) == InBody(job[j]) /\ lock[job[j].task] = job[j].token

\* The slot's token is no longer the one stored: it expired and another
\* worker acquired the lock.
Superseded(j) == job[j].token # NoToken /\ lock[job[j].task] \notin { NoToken, job[j].token }

\* The slot's own code took the step (a crash takes main() back to boot).
Moved(j) == job'[j] # job[j] /\ mainPc' = mainPc

\* C1: for every task id at most one worker executes the locked tick body
\* at any moment, as long as no tick body has outlived the lock TTL.
C1_MutualExclusion == \A t \in TaskIds : ~overrun[t] => Cardinality(TicksIn(t)) <= 1

\* A second tick of the task arrived while the first was in the body, and was kept out.
C1_Witness ==
  \E j1, j2 \in Slots :
    /\ j1 # j2
    /\ Holds(j1)
    /\ job[j1].pc = "handle"
    /\ job[j2].task = job[j1].task
    /\ job[j2].pc = "idle"
    /\ job[j2].res = "skipped"
    /\ ~overrun[job[j1].task]

\* C2: a tick whose lock expired and was acquired by another worker writes
\* nothing more to the task, its activities, its positions or its trade
\* records.
C2_StaleTickWritesNothing ==
  [][ \A j \in Slots : (InBody(job[j]) /\ Superseded(j) /\ Moved(j)) => UNCHANGED stores ]_vars

\* C3: a release changes the lock only when the stored token is the
\* caller's; a superseded worker's release leaves the new holder's lock.
C3_CompareAndDelete ==
  [][ \A j \in Slots :
        (job[j].pc = "release" /\ Moved(j))
          => /\ lock'[job[j].task] # lock[job[j].task] => lock[job[j].task] = job[j].token
             /\ Superseded(j) => lock' = lock ]_vars

\* A superseded worker has released and the new holder still has its lock.
C3_Witness ==
  \E j1, j2 \in Slots :
    /\ job[j1].pc = "idle"
    /\ job[j1].res = "ran"
    /\ ~job[j1].relFailed
    /\ Superseded(j1)
    /\ Holds(j2)
    /\ job[j2].task = job[j1].task
    /\ overrun[job[j1].task]

\* C4: a tick that finds the lock held runs none of the body, returns at
\* once without error, is not retried, and leaves the schedule in place.
C4_ContentionIsSkip ==
  [][ \A j \in Slots :
        (job[j].pc = "acquire" /\ lock[job[j].task] # NoToken /\ Moved(j))
          => /\ job'[j].pc = "idle"
             /\ job'[j].res = "skipped"
             /\ job'[j].token = NoToken
             /\ UNCHANGED << stores, lock, retryPending, repeatables >> ]_vars

\* A tick was skipped: it is complete, nothing waits for a retry and the
\* task's repeating entry is still there.
C4_Witness ==
  \E j \in Slots :
    /\ job[j].pc = "idle"
    /\ job[j].res = "skipped"
    /\ retryPending = {}
    /\ EntriesOf(job[j].task) # {}
    /\ lock[job[j].task] # NoToken

\* C5: the locked function is left only through the release: on every
\* exit, normal or by exception, the holder's token is no longer stored
\* once the release command has been carried out, and a thrown exception
\* then reaches the caller, which fails the job for a retry.
C5_ReleasedOnEveryExit ==
  [][ \A j \in Slots :
        /\ (InBody(job[j]) /\ Moved(j)) => (InBody(job'[j]) \/ job'[j].pc = "release")
        /\ (job[j].pc = "release" /\ Moved(j))
             => /\ job'[j].pc = "idle"
                /\ ~job'[j].relFailed => lock'[job[j].task] # job[j].token
                /\ job[j].thrown => (job'[j].res = "failed" /\ job[j].task \in retryPending')
                /\ ~job[j].thrown => (job'[j].res = "ran" /\ retryPending' = retryPending) ]_vars

\* The body threw while holding the lock: the lock is gone and the job failed.
C5_Witness ==
  \E j \in Slots :
    /\ job[j].pc = "idle"
    /\ job[j].res = "failed"
    /\ job[j].token # NoToken
    /\ ~job[j].relFailed
    /\ lock[job[j].task] = NoToken
    /\ job[j].task \in retryPending

\* The lock of a task is stored and nobody is left to release it.
DeadHolder(t) == lock[t] # NoToken /\ ~HolderAlive(t)

\* C6: a lock left behind by a dead holder or a failed release becomes
\* free, and a later tick of the task acquires it and runs the body.
C6_DeadHolderNeverBlocks ==
  \A t \in TaskIds : DeadHolder(t) ~> (\E j \in Slots : Holds(j) /\ job[j].task = t)

\* A release failed, the TTL removed that lock, and a later tick holds a new one.
C6_Witness ==
  \E j1, j2 \in Slots :
    /\ job[j1].pc = "idle"
    /\ job[j1].relFailed
    /\ Superseded(j1)
    /\ Holds(j2)
    /\ job[j2].task = job[j1].task
    /\ ~overrun[job[j1].task]

Quiescent == mainPc = "ready" /\ \A c \in CmdSlots : cmd[c].pc = "idle"

\* C7: whenever no command and no startup is in progress, a task has a
\* repeating tick scheduled if and only if its stored status is running.
C7_ScheduledIffRunning ==
  Quiescent => \A t \in TaskIds : (EntriesOf(t) # {}) <=> (tasks[t] = "running")

\* C8: once removeTask has returned for an id, no task entry, schedule
\* entry, activity, position or trade record of that id exists, nor
\* reappears later.
C8_RemovedStaysRemoved ==
  \A t \in removedIds :
    /\ tasks[t] = "none"
    /\ EntriesOf(t) = {}
    /\ \A a \in activities : a.taskId # t
    /\ \A p \in positions : p[1] # t
    /\ \A src \in Sources : tradeRecords[<< t, src >>] = 0

\* C9: no task ever has a second repeating entry, and when startup
\* completes the entries are exactly one per task stored as running.
C9_OneEntryPerRunningTask ==
  [][ /\ \A t \in TaskIds : Cardinality({ e \in repeatables' : e.jobId = t }) <= 1
      /\ (mainPc = "restore" /\ mainPc' = "ready")
           => repeatables' = { RepeatKey(t, DefaultIntervalMs) :
                                 t \in { u \in TaskIds : tasks'[u] = "running" } } ]_vars

\* A restarted instance is up: the previous one died in a tick (its lock is
\* still stored), and the running task has its one entry again.
C9_Witness ==
  /\ mainPc = "ready"
  /\ faults > 0
  /\ \A j \in Slots : job[j] = IdleJob
  /\ \E t \in TaskIds :
       /\ tasks[t] = "running"
       /\ lock[t] # NoToken
       /\ repeatables = { RepeatKey(t, DefaultIntervalMs) }

\* The loop body hands the trade to handleBuyTrade / handleSellTrade /
\* handleRedeemTrade (it closes the other cases itself).
HandlerCalled(trade, held) ==
  \/ trade.side = "BUY" /\ ~held
  \/ trade.side = "SELL" /\ held
  \/ trade.side = "REDEEM"

\* C10: an activity with bot=true keeps bot=true, and no handler is called
\* with it again, in the same tick or a later one.
C10_DoneIsNeverRevisited ==
  [][ /\ \A a \in activities : a.bot => \A b \in activities' : b.id = a.id => b.bot
      /\ \A j \in Slots :
           ( /\ job[j].pc = "handle"
             /\ Moved(j)
             /\ job'[j].trades = Tail(job[j].trades)
             /\ HandlerCalled(Head(job[j].trades), Head(job[j].trades).cond \in job[j].myPos) )
             => \A a \in activities : a.id = Head(job[j].trades).id => ~a.bot ]_vars

\* An activity a tick has marked as being processed and not yet closed.
Claimed(a) == a.botExcutedTime = 1 /\ ~a.bot

TradeIds(jr) == { jr.trades[i].id : i \in 1..Len(jr.trades) }

\* C11: an activity that is marked claimed (botExcutedTime = 1, bot = false)
\* is not selected as pending by any other tick attempt.
C11_ClaimedIsNotSelected ==
  [][ \A j \in Slots :
        (job[j].pc = "load" /\ Moved(j))
          => \A a \in activities : Claimed(a) => a.id \notin TradeIds(job'[j]) ]_vars

\* C12: when startup completes, no activity of a task stored as running is
\* still in the claimed state.
C12_ClaimedResetOnStartup ==
  [][ (mainPc = "restore" /\ mainPc' = "ready")
        => \A a \in activities' : tasks'[a.taskId] = "running" => ~Claimed(a) ]_vars

\* C13: when the handling of one pending activity ends, by return or by
\* exception, while others of the same tick are still pending, the loop
\* goes on with the next one; and the tick itself does not fail.
C13_ActivitiesAreIsolated ==
  [][ \A j \in Slots :
        (job[j].pc = "handle" /\ Moved(j))
          => /\ ~job'[j].thrown
             /\ Len(job[j].trades) > 1 => job'[j].pc = "claim" ]_vars

\* Every activity of the window is stored for the task and closed.
AllClosed(t) ==
  \A i \in 1..Len(Feed) :
    \E a \in activities : a.taskId = t /\ a.hash = Feed[i].hash /\ a.bot

\* C14: ingestion stores a row only for a transaction hash not yet stored
\* for the task, and a tick that ingests a window whose activities are all
\* stored and closed persists no row, finds nothing pending and leaves the
\* task, its positions and its trade records as they were.
C14_ReplayChangesNothing ==
  [][ \A j \in Slots :
        /\ (job[j].pc = "sync" /\ Moved(j))
             => /\ activities \subseteq activities'
                /\ \A a \in activities' \ activities :
                     ~\E b \in activities : b.hash = a.hash /\ b.taskId = a.taskId
        /\ (job[j].pc \in { "sync", "load" } /\ Moved(j) /\ AllClosed(job[j].task))
             => /\ UNCHANGED stores
                /\ job'[j].trades = << >>
                /\ job'[j].pc \in { "load", "release" } ]_vars

\* A tick has ingested the window again after earlier ticks filled and
\* closed all of it: nothing new is stored.
C14_Witness ==
  \E j \in Slots :
    /\ job[j].pc = "load"
    /\ AllClosed(job[j].task)
    /\ faults = 0
    /\ \A k \in Slots \ {j} : job[k].pc = "idle"
    /\ Cardinality(activities) = Len(Feed)
    /\ tradeRecords[<< job[j].task, Feed[1].hash >>] = 1

\* Rows stored by the step just taken, in the order they were saved.
NewRows == activities' \ activities

\* C15: at most one row per (transactionHash, taskId), and after a call for
\* a task the call has not failed and the task has its own row for every
\* activity of the response, whatever the other tasks have stored.
C15_EachTaskOwnsItsRows ==
  /\ \A a, b \in activities : (a.hash = b.hash /\ a.taskId = b.taskId) => a = b
  /\ call.task # 0
       => /\ ~call.threw
          /\ \A i \in 1..Len(call.resp) :
               \E a \in activities : a.taskId = call.task /\ a.hash = call.resp[i].hash

\* C16: a row stored by a call is pre-closed (bot, sentinel) exactly when it
\* is a BUY and the same call stored an earlier BUY of the same conditionId
\* for the task; a SELL is never pre-closed.
C16_PreClosedIffRepeatedBuy ==
  [][ \A a \in NewRows :
        /\ a.bot <=> a.botExcutedTime = ProcessedSentinel
        /\ a.side = "SELL" => ~a.bot
        /\ a.bot <=> ( /\ a.side = "BUY"
                       /\ \E b \in NewRows :
                            /\ b.id < a.id /\ b.side = "BUY"
                            /\ b.cond = a.cond /\ b.taskId = a.taskId ) ]_vars

\* The tick holds 100 tokens, the trader holds none, and SELLs of 60 and
\* then 40 tokens are pending.
FullExitQueue ==
  /\ ledger.startSize = 100 * TokenUnit
  /\ ledger.target = 0
  /\ ledger.loaded = << [ side |-> "SELL", size |-> 60 * TokenUnit, price |-> 0 ],
                        [ side |-> "SELL", size |-> 40 * TokenUnit, price |-> 0 ] >>

\* C17: the SELLs pending in one tick are sized against what the earlier
\* ones left: the tokens sold in a tick never exceed the size held when it
\* started, and with 100 held, the trader out and SELLs of 60 then 40, the
\* first order is for 60 tokens and the second for 40.
C17_QueueSellsTheRemainder ==
  /\ ledger.sold <= ledger.startSize
  /\ FullExitQueue =>
       \A i \in 1..Len(ledger.orders) : ledger.orders[i] = ledger.loaded[i].size

\* What the ratio is applied to: the own position size, or in live mode the
\* tracked purchases when there are any.
OwnBasis ==
  IF sizing.mode = "live" /\ sizing.tracked > 0 THEN sizing.tracked ELSE sizing.own

SoldNow == ledger'.sold - ledger.sold

\* The step is a REDEEM that paid out or settled at zero.
RedeemedNow ==
  /\ ledger.pc = "loop"
  /\ Head(ledger.trades).side = "REDEEM"
  /\ ledger'.fills > ledger.fills

\* C19: a stored mock position always has size > 0; a position whose
\* residual after a sell is at most 0.01, or that is redeemed, is deleted;
\* and a SELL that leaves the position stored lowers its totalBought by
\* exactly the tokens sold times its avgPrice.
C19_PositionsStayPositive ==
  [][ /\ \A q \in ledger'.positions : q.size > 0
      /\ RedeemedNow => ledger'.positions = {}
      /\ SoldNow > 0 =>
           \A q \in ledger.positions :
             /\ q.size - SoldNow <= DustThreshold => ledger'.positions = {}
             /\ \A n \in ledger'.positions :
                  /\ n.size = q.size - SoldNow
                  /\ n.totalBought = q.totalBought - SoldNow * q.avgPrice ]_vars

\* The field summed over the documents of S.
RECURSIVE SumOf(_, _)
SumOf(S, field) ==
  IF S = {} THEN 0
  ELSE LET q == CHOOSE x \in S : TRUE IN q[field] + SumOf(S \ {q}, field)

BuyStep == ledger.pc = "loop" /\ Head(ledger.trades).side = "BUY" /\ ledger' # ledger

\* The step leaves positions, trade records and balance as they were.
LedgerFrame ==
  /\ ledger'.positions = ledger.positions
  /\ ledger'.balance = ledger.balance
  /\ ledger'.fills = ledger.fills
  /\ ledger'.realized = ledger.realized

\* The dollars a BUY would spend: the fixed amount, or 99% of the balance
\* when that is less.
Notional ==
  IF FixedAmount * 100 > ledger.balance * 99 THEN (ledger.balance * 99) \div 100
  ELSE FixedAmount

C23_UnsettledRedeemChangesNothing ==
  [][ ( /\ ledger.pc = "loop"
        /\ Head(ledger.trades).side = "REDEEM"
        /\ ledger'.payout = NotSettled )
      => /\ LedgerFrame
         /\ ledger'.trades = Tail(ledger.trades) ]_vars

\* The only trade of a tick was a REDEEM of a held position and the
\* condition was not settled.
C23_Witness ==
  /\ ledger.pc = "idle"
  /\ Len(ledger.loaded) = 1
  /\ ledger.loaded[1].side = "REDEEM"
  /\ ledger.payout = NotSettled
  /\ \E q \in ledger.positions : q.size > 0

\* C24: while the task runs, no own position stays for more than 30 ticks
\* in a market the followed trader has left: the reconciler that runs every
\* 30 ticks closes it.
C24_OrphanClosedWithinThirtyTicks ==
  recon.orphanTicks <= SyncEveryNTicks

\* C25: an iteration of a reconciliation run hands the own position to the
\* forced close exactly when the followed trader's current positions lack
\* its conditionId or hold it with size 0; a position the trader still holds,
\* and every position other than the one visited, stays as it is.
C25_ClosesExactlyTheOrphans ==
  [][ (recon.pc = "loop" /\ recon' # recon)
      => LET myPosition == Head(recon.todo)
             c == myPosition.conditionId
             orphan == recon.target[c] = Absent \/ recon.target[c] <= 0
         IN /\ (recon'.last.conditionId = c) <=> orphan
            /\ ~orphan => (recon'.own = recon.own /\ recon'.balance = recon.balance)
            /\ \A q \in recon.own : q.conditionId # c => q \in recon'.own ]_vars

ValidBids(book) == { bid \in LevelsOf(book) : bid.price > 0 /\ bid.size > 0 }

C27_EveryFillHasOneRecord ==
  live.pc = "idle" =>
    \A i \in DOMAIN live.acts :
      (live.acts[i].done /\ live.filled[i] > 0) => live.records[i] = 1

\* C28: in no state is an activity marked done (bot = true) while the trade
\* record of its fill is still unwritten.
C28_RecordBeforeDone ==
  \A i \in DOMAIN live.acts :
    (live.acts[i].done /\ live.filled[i] > 0) => live.records[i] >= 1

\* C29: an iteration of the Live BUY loop submits an order only when the best
\* ask is at most 0.05 above the trade price; with a higher best ask it
\* submits nothing, marks the activity done and leaves the loop.
C29_NoOrderAboveTheGuard ==
  [][ (live.pc = "buyloop" /\ live'.order # NoOrder)
      => LET o == live'.order
         IN /\ o.amount > 0 => o.seen <= LiveTradePrice + LiveSlippage
            /\ o.seen > LiveTradePrice + LiveSlippage =>
                 /\ o.amount = 0
                 /\ live'.pc = "buymark"
                 /\ live'.acts[live.cur].done
                 /\ live'.held = live.held ]_vars

\* After a fill the next best ask was 0.26 against a trade price of 0.20 and
\* the loop was left without an order.
C29_Witness ==
  /\ live.pc = "buymark"
  /\ live.order = [ seen |-> 26, amount |-> 0 ]
  /\ live.total > 0

\* C30: at most one done BUY of the market carries myBoughtSize > 0, and
\* while a BUY is in its order loop no other BUY does.
C30_OneTrackedBuyPerMarket ==
  /\ Cardinality(previousBuys(live.acts)) <= 1
  /\ live.pc \in { "buyloop", "buymark", "buyrecord" } =>
       previousBuys(live.acts) \subseteq { live.cur }

\* A second BUY was skipped without an order while the first one is tracked.
C30_Witness ==
  /\ Len(live.acts) >= 2
  /\ live.acts[1].side = "BUY" /\ live.acts[1].myBoughtSize > 0
  /\ live.acts[2].side = "BUY" /\ live.acts[2].done
  /\ live.acts[2].attempts = ProcessedSentinel
  /\ live.filled[2] = 0
  /\ live.held = live.filled[1]


\* C31: no live task is ever stored whose privateKey does not derive its
\* operator wallet address: a draft with a mismatch is rejected before the
\* task hash or the schedule changes, whether it arrives as a pub/sub "add"
\* message or as a chat command.
C31_LiveKeyDerivesWallet ==
  /\ \A t \in admit.store :
       t.type = "live" => KeyDerivesWallet(t.privateKey, t.myWalletAddress)
  /\ admit.scheduled = { t.id : t \in admit.store }

\* C32: every write to the positions and activities of an existing task
\* (and the balance written with them) is made by a worker that holds the
\* task's lock at that moment; the closes of the startup reconciliation are
\* no exception.
C32_OnlyTheLockHolderWrites ==
  [][ \A t \in TaskIds :
        ( /\ tasks[t] # "none"
          /\ \/ getMyPositions(t)' # getMyPositions(t)
             \/ { a \in activities : a.taskId = t }' # { a \in activities : a.taskId = t } )
          => \E j \in Slots : Moved(j) /\ job[j].task = t /\ Holds(j) ]_vars

\* C33: a stop is not undone by a tick that was in progress: once stopTask
\* has stored status stopped and returned, only a restart of the task stores
\* running again; the tick's updateTask of the balance leaves the status
\* stopped.
C33_StopSurvivesTheTick ==
  [][ \A t \in TaskIds :
        ( /\ tasks[t] = "stopped" /\ tasks'[t] = "running"
          /\ \A c \in CmdSlots : ~(cmd[c].op = "stop" /\ cmd[c].id = t) )
          => \E c \in CmdSlots :
               cmd[c].pc = "restartStore" /\ cmd[c].id = t /\ cmd'[c] # cmd[c] ]_vars

\* C34: a BUY handled while a position of positive size is stored for its
\* conditionId fills nothing: the position is not overwritten and the
\* balance is not debited again, also when the position was created by an
\* earlier BUY of the same tick.
C34_SecondBuyIsSkipped ==
  [][ (BuyStep /\ \E q \in ledger.positions : q.size > 0)
        => /\ ledger'.positions = ledger.positions
           /\ ledger'.balance = ledger.balance ]_vars

\* C35: a failed request for the followed trader's positions is not read as
\* "the trader holds nothing": a SELL handled in a tick whose request failed
\* does not sell the own position in full.
C35_FailedFetchSellsNothingInFull ==
  [][ ( /\ ledger.pc = "loop"
        /\ Head(ledger.trades).side = "SELL"
        /\ ledger.fetchFailed
        /\ ledger.positions # {} )
        => ledger'.positions # {} ]_vars

\* An activity of the window is stored and open / stored and done.
Open(t, h) == \E a \in activities : a.taskId = t /\ a.hash = h /\ ~a.bot
Done(t, h) == \E a \in activities : a.taskId = t /\ a.hash = h /\ a.bot

C37_BooksBalance ==
  ledger.pc = "idle" =>
    ledger.balance + SumOf(ledger.positions, "totalBought")
      = ledger.initialFinance + ledger.realized

\* C38: the currentBalance of a mock task is never negative, whatever its
\* initialFinance: a BUY debits at most 0.99 of the balance it was sized from.
C38_BalanceNeverNegative ==
  /\ [](ledger.balance >= 0)
  /\ [][ BuyStep => (ledger.balance - ledger'.balance) * 100 <= 99 * ledger.balance ]_vars


InOrderLoop == live.pc \in { "buyloop", "sellloop" }

====
